---- MODULE Spec2Model ----
(***************************************************************************)
(* Model of the planning store of mcp-agent-planning: the Database class   *)
(* of src/src/database.js (projects, tasks, task_dependencies, blockers,   *)
(* blocker_impacts, decisions and the foreign keys of its migrations) and  *)
(* the manage_task_dependencies tool handler of the server.                *)
(*                                                                         *)
(* In the specifications of calls that do not overlap, a call is processed *)
(* to completion before the next one begins and one action is one call.    *)
(* SpecSearch and SpecOverlap take the asynchronous methods one database   *)
(* statement at a time: `calls` holds the calls in flight, each with the   *)
(* statement it awaits and its local variables.  `result` holds what the   *)
(* last finished call returned or threw.                                   *)
(***************************************************************************)
EXTENDS Integers, Sequences, FiniteSets, TLC

VARIABLES projects, tasks, task_dependencies, blockers, blocker_impacts, decisions, result,
          calls, migrations, log

vars == <<projects, tasks, task_dependencies, blockers, blocker_impacts, decisions, result,
          calls, migrations, log>>

tables == <<projects, tasks, task_dependencies, blockers, blocker_impacts, decisions>>

----------------------------------------------------------------------------
(* Bounds of the model. *)

MaxTasks == 3

MaxBlockers == 1

MaxDeps == 3

MaxImpacts == 2

MaxProjects == 2

MaxDecisions == 3

TaskIds == 1..MaxTasks

BlockerIds == 1..MaxBlockers

ProjectIds == 1..MaxProjects

DecisionIds == 1..MaxDecisions

MaxCalls == 2

CallIds == 1..MaxCalls

(* An id no row ever has ('fake-parent', 'nonexistent-task-id' of the tests). *)
FakeId == 0

(* JavaScript undefined (an omitted argument) and SQL NULL. *)
UNDEF == "undefined"

NULL == "NULL"

(* Mutant: the empty string counts as a value. *)
Falsy_notEmpty(x) == x \in {UNDEF, NULL}

(* The values JavaScript's !x treats as missing, among those the model uses. *)
Falsy(x) == x \in {UNDEF, NULL, ""}

----------------------------------------------------------------------------
(* Enumerations of the tool schemas and the column defaults. *)

TaskStatuses == {"todo", "in-progress", "blocked", "completed"}

DependencyTypes == {"blocks", "subtask", "prerequisite"}

BlockerStatuses == {"open", "in-progress", "resolved", "closed"}

TaskPriorities == {"high", "medium", "low"}

BlockerTypes == {"external", "resource", "technical", "decision", "dependency"}

BlockerSeverities == {"low", "medium", "high", "critical"}

ImpactTypes == {"blocks", "delays", "affects"}

(* The error messages of the code, by the kind the specification gives them. *)
NotFound == {"Task not found", "Parent task not found", "Child task not found",
             "Blocker not found"}

CycleDetected == "would result in circular dependency"

Blocked == "blocked by unsatisfied dependencies"

InvalidArgument == {"Task title is required", "No valid update fields provided",
                    "title is required for blocker creation",
                    "No valid fields to update"}

SqliteConstraint == "SQLITE_CONSTRAINT"

(* The error sqlite3 raises for a row that repeats a UNIQUE key. *)
SqliteUnique == "SQLITE_CONSTRAINT: UNIQUE constraint failed"

AlreadyExists == {SqliteUnique}

NoError == "none"

NoContext == "No active project context found"

----------------------------------------------------------------------------
(* Helpers. *)

(* The rows of a result set, one after the other. *)
RECURSIVE RowsOf(_)
RowsOf(S) ==
    IF S = {} THEN <<>>
    ELSE LET r == CHOOSE x \in S : TRUE
         IN  <<r>> \o RowsOf(S \ {r})

(* generateId(): an id no stored row of the table has. *)
generateId(used, ids) == CHOOSE i \in ids \ used : \A j \in ids \ used : i <= j

(* SELECT * FROM projects WHERE status = 'active' ORDER BY updated_at DESC    *)
(* LIMIT 1, as the set of rows the query may return.                          *)
getCurrentActiveProject ==
    {p \in DOMAIN projects :
        /\ projects[p].status = "active"
        /\ \A q \in DOMAIN projects :
              projects[q].status = "active" => projects[q].updated_at <= projects[p].updated_at}

(* Mutant: the query without its branch condition. *)
getCurrentContext_anyBranch(branch) ==
    {p \in DOMAIN projects :
        /\ projects[p].status = "active"
        /\ \A q \in DOMAIN projects :
              projects[q].status = "active" => projects[q].updated_at <= projects[p].updated_at}

(* Mutant: the query without its ORDER BY. *)
getCurrentContext_anyOrder(branch) ==
    {p \in DOMAIN projects : projects[p].status = "active" /\ projects[p].branch = branch}

(* The same query restricted to one branch. *)
getCurrentContext(branch) ==
    {p \in DOMAIN projects :
        /\ projects[p].status = "active"
        /\ projects[p].branch = branch
        /\ \A q \in DOMAIN projects :
              (projects[q].status = "active" /\ projects[q].branch = branch)
                 => projects[q].updated_at <= projects[p].updated_at}

(* The branch detectGitBranch reports for the working directory. *)
detectGitBranch == "main"

(* A call's outcome: what it returned (error = NoError) or the error it threw. *)
Returned(op, args, ret) == [op |-> op, error |-> NoError, args |-> args, ret |-> ret]

Threw(op, args, msg, ret) == [op |-> op, error |-> msg, args |-> args, ret |-> ret]

(* A call slot with no call in flight. *)
NoCall == [op |-> "none", pc |-> "idle", args |-> <<>>, locals |-> <<>>]

----------------------------------------------------------------------------
(* Schema migrations.  `migrations` holds the rows of the migrations table in   *)
(* the order of their ids, `log` the versions that 'Running migration ...' was  *)
(* written for, in the order they ran.                                          *)

getMigrations ==
    <<[version |-> 1, name |-> "initial_schema"],
      [version |-> 2, name |-> "add_task_tracking"],
      [version |-> 3, name |-> "add_decision_logging"],
      [version |-> 4, name |-> "add_file_mapping"],
      [version |-> 5, name |-> "add_task_dependencies"],
      [version |-> 6, name |-> "add_blocker_management"]>>

(* SELECT version FROM migrations ORDER BY version DESC LIMIT 1, or 0. *)
currentVersion ==
    IF migrations = <<>> THEN 0
    ELSE CHOOSE v \in {migrations[i].version : i \in DOMAIN migrations} :
            \A i \in DOMAIN migrations : migrations[i].version <= v

(* Mutant: the migration of the current version is taken as pending too. *)
Pending_fromCurrent(version) ==
    SelectSeq(getMigrations, LAMBDA migration : migration.version >= version)

(* The migrations the loop runs: those with migration.version > currentVersion, *)
(* in the order of getMigrations().                                             *)
Pending(version) ==
    SelectSeq(getMigrations, LAMBDA migration : migration.version > version)

(* The loop: for each pending migration, the log line, migration.up and the     *)
(* INSERT INTO migrations, which UNIQUE (version) rejects for a stored version; *)
(* the rejection ends the loop with the error.                                  *)
RECURSIVE RunPending(_, _, _)
RunPending(pending, rows, lines) ==
    IF pending = <<>>
    THEN [rows |-> rows, lines |-> lines, error |-> NoError]
    ELSE LET migration == Head(pending)
             ran == Append(lines, migration.version)
         IN  IF \E i \in DOMAIN rows : rows[i].version = migration.version
             THEN [rows |-> rows, lines |-> ran, error |-> SqliteUnique]
             ELSE RunPending(Tail(pending), Append(rows, migration), ran)

(* runMigrationsForProject: what it leaves in the migrations table and the log. *)
runMigrationsForProject ==
    LET run == RunPending(Pending(currentVersion), migrations, log)
    IN  migrations' = run.rows /\ log' = run.lines

(* getProjectDatabase: the connection is opened and the pending migrations run. *)
getProjectDatabase ==
    LET run == RunPending(Pending(currentVersion), migrations, log)
    IN  /\ runMigrationsForProject
        /\ result' = [op |-> "getProjectDatabase", error |-> run.error, args |-> <<>>,
                      ret |-> [ran |-> SubSeq(run.lines, Len(log) + 1, Len(run.lines))]]
        /\ UNCHANGED <<tables, calls>>

----------------------------------------------------------------------------
(* Projects. *)

(* The greatest updated_at of the stored projects. *)
LatestUpdate ==
    IF DOMAIN projects = {} THEN 0
    ELSE CHOOSE u \in {projects[p].updated_at : p \in DOMAIN projects} :
            \A q \in DOMAIN projects : projects[q].updated_at <= u

(* initializeContext: INSERT INTO projects (..., branch, ..., status) VALUES     *)
(* (..., 'active'); updated_at defaults to CURRENT_TIMESTAMP, which has a        *)
(* resolution of one second, so it may equal that of the latest project.         *)
initializeContext(branch) ==
    /\ DOMAIN projects # ProjectIds
    /\ LET projectId == generateId(DOMAIN projects, ProjectIds)
       IN  \E now \in {LatestUpdate, LatestUpdate + 1} :
              /\ projects' = [p \in DOMAIN projects \cup {projectId} |->
                                 IF p = projectId
                                 THEN [branch |-> branch, status |-> "active", updated_at |-> now]
                                 ELSE projects[p]]
              /\ result' = Returned("initializeContext", [branch |-> branch],
                                    [project_id |-> projectId])
    /\ runMigrationsForProject
    /\ UNCHANGED <<tasks, task_dependencies, blockers, blocker_impacts, decisions, calls>>

----------------------------------------------------------------------------
(* Task lifecycle: createTask, updateTask, completeTask, deleteTask. *)

UpdatableTaskFields == {"title", "description", "status", "priority", "assignee", "notes"}

(* The value a JavaScript default parameter takes. *)
Default(x, d) == IF x = UNDEF THEN d ELSE x

(* sqlite3 binds undefined as NULL. *)
Bind(x) == IF x = UNDEF THEN NULL ELSE x

createTask(projectId, taskData) ==
    LET args == [project_id |-> projectId, taskData |-> taskData] IN
    /\ DOMAIN tasks # TaskIds
    /\ LET taskId == generateId(DOMAIN tasks, TaskIds)
           status == Default(taskData.status, "todo")
           priority == Default(taskData.priority, "medium")
       IN  IF Falsy(taskData.title)
           THEN /\ result' = Threw("createTask", args, "Task title is required", <<>>)
                /\ UNCHANGED <<tables, calls, migrations, log>>
           ELSE IF projectId \notin DOMAIN projects
           THEN /\ result' = Threw("createTask", args, SqliteConstraint, <<>>)
                /\ UNCHANGED <<tables, calls, migrations, log>>
           ELSE /\ tasks' = [i \in DOMAIN tasks \cup {taskId} |->
                               IF i = taskId
                               THEN [project_id |-> projectId,
                                     title |-> taskData.title,
                                     description |-> Bind(taskData.description),
                                     status |-> status,
                                     priority |-> priority,
                                     assignee |-> Bind(taskData.assignee),
                                     notes |-> Bind(taskData.notes),
                                     completed_at |-> NULL]
                               ELSE tasks[i]]
                /\ result' = Returned("createTask", args,
                                      [task_id |-> taskId, title |-> taskData.title,
                                       status |-> status])
                /\ UNCHANGED <<projects, task_dependencies, blockers, blocker_impacts, decisions, calls, migrations, log>>

(* Mutant: notes is written even when it is not among the updates. *)
ApplyTaskUpdates_overwriteNotes(row, updates) ==
    [f \in DOMAIN row |->
        IF f = "notes" THEN Bind(updates[f])
        ELSE IF f \in UpdatableTaskFields /\ updates[f] # UNDEF THEN updates[f]
        ELSE row[f]]

(* Mutant: an update to status 'completed' stamps completed_at. *)
ApplyTaskUpdates_stampCompleted(row, updates) ==
    [f \in DOMAIN row |->
        IF f \in UpdatableTaskFields /\ updates[f] # UNDEF THEN updates[f]
        ELSE IF f = "completed_at" /\ updates.status = "completed" THEN "now"
        ELSE row[f]]

(* The row after UPDATE tasks SET <the provided fields> WHERE id = ? *)
ApplyTaskUpdates(row, updates) ==
    [f \in DOMAIN row |->
        IF f \in UpdatableTaskFields /\ updates[f] # UNDEF THEN updates[f] ELSE row[f]]

(* Mutant: a status update to 'completed' goes through the completion check. *)
updateTask_gated(taskId, updates) ==
    LET args == [task_id |-> taskId, updates |-> updates]
        updateFields == {f \in UpdatableTaskFields : updates[f] # UNDEF}
        unmet == {d \in task_dependencies :
                     /\ d.child_task_id = taskId
                     /\ d.dependency_type \in {"blocks", "prerequisite"}
                     /\ d.parent_task_id \in DOMAIN tasks
                     /\ tasks[d.parent_task_id].status # "completed"}
    IN  IF updateFields = {}
        THEN /\ result' = Threw("updateTask", args, "No valid update fields provided", <<>>)
             /\ UNCHANGED <<tables, calls, migrations, log>>
        ELSE IF taskId \notin DOMAIN tasks
        THEN /\ result' = Threw("updateTask", args, "Task not found", <<>>)
             /\ UNCHANGED <<tables, calls, migrations, log>>
        ELSE IF updates.status = "completed" /\ unmet # {}
        THEN /\ result' = Threw("updateTask", args, Blocked, <<>>)
             /\ UNCHANGED <<tables, calls, migrations, log>>
        ELSE /\ tasks' = [tasks EXCEPT ![taskId] = ApplyTaskUpdates(@, updates)]
             /\ result' = Returned("updateTask", args,
                                   [task_id |-> taskId, fields_updated |-> updateFields])
             /\ UNCHANGED <<projects, task_dependencies, blockers, blocker_impacts,
                            decisions, calls, migrations, log>>

updateTask(taskId, updates) ==
    LET args == [task_id |-> taskId, updates |-> updates]
        updateFields == {f \in UpdatableTaskFields : updates[f] # UNDEF}
    IN  IF updateFields = {}
        THEN /\ result' = Threw("updateTask", args, "No valid update fields provided", <<>>)
             /\ UNCHANGED <<tables, calls, migrations, log>>
        ELSE IF taskId \notin DOMAIN tasks
        THEN /\ result' = Threw("updateTask", args, "Task not found", <<>>)
             /\ UNCHANGED <<tables, calls, migrations, log>>
        ELSE IF updates.title = NULL
        THEN /\ result' = Threw("updateTask", args, SqliteConstraint, <<>>)
             /\ UNCHANGED <<tables, calls, migrations, log>>
        ELSE /\ tasks' = [tasks EXCEPT ![taskId] = ApplyTaskUpdates(@, updates)]
             /\ result' = Returned("updateTask", args,
                                   [task_id |-> taskId, fields_updated |-> updateFields])
             /\ UNCHANGED <<projects, task_dependencies, blockers, blocker_impacts, decisions, calls, migrations, log>>

(* Mutant: prerequisite edges are left out of the completion check. *)
canCompleteTask_blocksOnly(taskId) ==
    LET unsatisfiedDeps ==
            {[id |-> d.parent_task_id,
              title |-> tasks[d.parent_task_id].title,
              status |-> tasks[d.parent_task_id].status,
              dependency_type |-> d.dependency_type] :
                d \in {e \in task_dependencies :
                          /\ e.child_task_id = taskId
                          /\ e.dependency_type = "blocks"
                          /\ tasks[e.parent_task_id].status # "completed"}}
    IN  [can_complete |-> unsatisfiedDeps = {},
         unsatisfied_dependencies |-> unsatisfiedDeps]

(* Mutant: the query without its dependency_type condition. *)
canCompleteTask_allTypes(taskId) ==
    LET unsatisfiedDeps ==
            {[id |-> d.parent_task_id,
              title |-> tasks[d.parent_task_id].title,
              status |-> tasks[d.parent_task_id].status,
              dependency_type |-> d.dependency_type] :
                d \in {e \in task_dependencies :
                          /\ e.child_task_id = taskId
                          /\ e.parent_task_id \in DOMAIN tasks
                          /\ tasks[e.parent_task_id].status # "completed"}}
    IN  [can_complete |-> unsatisfiedDeps = {},
         unsatisfied_dependencies |-> unsatisfiedDeps]

(* canCompleteTask: the parents of taskId on blocks or prerequisite edges      *)
(* (joined with their task row) whose status is not 'completed'.              *)
canCompleteTask(taskId) ==
    LET dependencies ==
            {[id |-> d.parent_task_id,
              title |-> tasks[d.parent_task_id].title,
              status |-> tasks[d.parent_task_id].status,
              dependency_type |-> d.dependency_type] :
                d \in {e \in task_dependencies :
                          /\ e.child_task_id = taskId
                          /\ e.dependency_type \in {"blocks", "prerequisite"}
                          /\ e.parent_task_id \in DOMAIN tasks}}
        unsatisfiedDeps == {dep \in dependencies : dep.status # "completed"}
    IN  [can_complete |-> unsatisfiedDeps = {},
         unsatisfied_dependencies |-> unsatisfiedDeps]

completeTask(taskId, notes) ==
    LET args == [task_id |-> taskId, notes |-> notes]
        dependencyCheck == canCompleteTask(taskId)
    IN  IF ~dependencyCheck.can_complete
        THEN /\ result' = Threw("completeTask", args, Blocked,
                                [blockedBy |-> {<<dep.title, dep.status>> :
                                                  dep \in dependencyCheck.unsatisfied_dependencies}])
             /\ UNCHANGED <<tables, calls, migrations, log>>
        ELSE IF taskId \notin DOMAIN tasks
        THEN /\ result' = Threw("completeTask", args, "Task not found", <<>>)
             /\ UNCHANGED <<tables, calls, migrations, log>>
        ELSE /\ tasks' = [tasks EXCEPT ![taskId] =
                            [@ EXCEPT !.status = "completed",
                                      !.completed_at = "now",
                                      !.notes = IF Falsy(notes) THEN @ ELSE notes]]
             /\ result' = Returned("completeTask", args,
                                   [task_id |-> taskId, completed_at |-> "now",
                                    dependency_check |-> dependencyCheck])
             /\ UNCHANGED <<projects, task_dependencies, blockers, blocker_impacts, decisions, calls, migrations, log>>

(* Mutant: blocker_impacts.task_id without ON DELETE CASCADE enforcement. *)
DeleteTaskRow_keepImpacts(taskId) ==
    /\ tasks' = [i \in DOMAIN tasks \ {taskId} |-> tasks[i]]
    /\ task_dependencies' = {d \in task_dependencies :
                                d.parent_task_id # taskId /\ d.child_task_id # taskId}
    /\ blocker_impacts' = blocker_impacts

(* DELETE FROM tasks WHERE id = ?, with the ON DELETE CASCADE of                *)
(* task_dependencies (parent_task_id, child_task_id) and blocker_impacts        *)
(* (task_id).                                                                   *)
DeleteTaskRow(taskId) ==
    /\ tasks' = [i \in DOMAIN tasks \ {taskId} |-> tasks[i]]
    /\ task_dependencies' = {d \in task_dependencies :
                                d.parent_task_id # taskId /\ d.child_task_id # taskId}
    /\ blocker_impacts' = {bi \in blocker_impacts : bi.task_id # taskId}

(* Mutant: the number of deleted rows is not looked at. *)
deleteTask_noChangesCheck(taskId) ==
    /\ DeleteTaskRow(taskId)
    /\ result' = Returned("deleteTask", [task_id |-> taskId], [task_id |-> taskId])
    /\ UNCHANGED <<projects, blockers, decisions, calls, migrations, log>>

deleteTask(taskId) ==
    LET args == [task_id |-> taskId] IN
    IF taskId \notin DOMAIN tasks
    THEN /\ result' = Threw("deleteTask", args, "Task not found", <<>>)
         /\ UNCHANGED <<tables, calls, migrations, log>>
    ELSE /\ DeleteTaskRow(taskId)
         /\ result' = Returned("deleteTask", args, [task_id |-> taskId])
         /\ UNCHANGED <<projects, blockers, decisions, calls, migrations, log>>

----------------------------------------------------------------------------
(* Task dependencies. *)

(* Database.runCustom is called by the dependency and blocker methods but is    *)
(* defined nowhere in the repository; its callers read result.changes and the   *)
(* tests expect the statement to have run, so it is taken to run one statement  *)
(* and resolve to its outcome, as the db.run wrapper of getProjectDatabase      *)
(* does.                                                                        *)
runCustom(outcome) == outcome

(* Mutant: the search follows the edges from child to parent. *)
Dependents_reversed(currentId) ==
    LET rows == RowsOf({d \in task_dependencies : d.child_task_id = currentId})
    IN  [i \in 1..Len(rows) |-> rows[i].parent_task_id]

(* Mutant: the search follows blocks and prerequisite rows only. *)
Dependents_gatingOnly(currentId) ==
    LET rows == RowsOf({d \in task_dependencies :
                          /\ d.parent_task_id = currentId
                          /\ d.dependency_type \in {"blocks", "prerequisite"}})
    IN  [i \in 1..Len(rows) |-> rows[i].child_task_id]

(* Mutant: only the first row of the result is used. *)
Dependents_firstRow(currentId) ==
    LET rows == RowsOf({d \in task_dependencies : d.parent_task_id = currentId})
    IN  [i \in 1..(IF rows = <<>> THEN 0 ELSE 1) |-> rows[i].child_task_id]

(* SELECT child_task_id FROM task_dependencies WHERE parent_task_id = ? *)
Dependents(currentId) ==
    LET rows == RowsOf({d \in task_dependencies : d.parent_task_id = currentId})
    IN  [i \in 1..Len(rows) |-> rows[i].child_task_id]

(* The loop of wouldCreateCircularDependency: a depth-first search from the      *)
(* child along parent_task_id -> child_task_id rows of every type, with a        *)
(* visited set.                                                                  *)
RECURSIVE CycleSearch(_, _, _)
CycleSearch(stack, visited, parentTaskId) ==
    IF stack = <<>>
    THEN [found |-> FALSE, visited |-> visited]
    ELSE LET currentId == stack[Len(stack)]
             popped == SubSeq(stack, 1, Len(stack) - 1)
         IN  IF currentId \in visited
             THEN CycleSearch(popped, visited, parentTaskId)
             ELSE IF currentId = parentTaskId
             THEN [found |-> TRUE, visited |-> visited \cup {currentId}]
             ELSE CycleSearch(popped \o Dependents(currentId),
                              visited \cup {currentId}, parentTaskId)

(* Mutant: only a direct edge back is looked for, not a path. *)
wouldCreateCircularDependency_direct(parentTaskId, childTaskId) ==
    \/ parentTaskId = childTaskId
    \/ \E d \in task_dependencies :
          d.parent_task_id = childTaskId /\ d.child_task_id = parentTaskId

(* Mutant: the start node is not compared with the parent. *)
wouldCreateCircularDependency_noSelf(parentTaskId, childTaskId) ==
    /\ parentTaskId # childTaskId
    /\ CycleSearch(<<childTaskId>>, {}, parentTaskId).found

wouldCreateCircularDependency(parentTaskId, childTaskId) ==
    CycleSearch(<<childTaskId>>, {}, parentTaskId).found

(* Mutant: the table without its UNIQUE constraint. *)
InsertDependencyAllowed_noUnique(row) ==
    /\ row.parent_task_id \in DOMAIN tasks
    /\ row.child_task_id \in DOMAIN tasks
    /\ row.parent_task_id # row.child_task_id
    /\ row.dependency_type # NULL

(* INSERT INTO task_dependencies under the table's constraints: the two          *)
(* foreign keys, CHECK (parent_task_id != child_task_id), NOT NULL               *)
(* dependency_type and UNIQUE (parent_task_id, child_task_id, dependency_type).  *)
InsertDependencyAllowed(row) ==
    /\ row.parent_task_id \in DOMAIN tasks
    /\ row.child_task_id \in DOMAIN tasks
    /\ row.parent_task_id # row.child_task_id
    /\ row.dependency_type # NULL
    /\ \A d \in task_dependencies :
          ~(/\ d.parent_task_id = row.parent_task_id
            /\ d.child_task_id = row.child_task_id
            /\ d.dependency_type = row.dependency_type)

(* The error of an INSERT INTO task_dependencies that a constraint rejects. *)
InsertDependencyError(row) ==
    IF \E d \in task_dependencies :
          /\ d.parent_task_id = row.parent_task_id
          /\ d.child_task_id = row.child_task_id
          /\ d.dependency_type = row.dependency_type
    THEN SqliteUnique
    ELSE SqliteConstraint

(* Mutant: only the parent is looked up before the cycle check. *)
addTaskDependencyOutcome_noChildCheck(projectId, parentTaskId, childTaskId, dependencyTypeArg) ==
    LET dependencyType == Default(dependencyTypeArg, "blocks")
        row == [project_id |-> projectId, parent_task_id |-> parentTaskId,
                child_task_id |-> childTaskId, dependency_type |-> dependencyType]
    IN  IF parentTaskId \notin DOMAIN tasks
        THEN [error |-> "Parent task not found", insert |-> {}, ret |-> <<>>]
        ELSE IF wouldCreateCircularDependency(parentTaskId, childTaskId)
        THEN [error |-> CycleDetected, insert |-> {}, ret |-> <<>>]
        ELSE IF ~runCustom(InsertDependencyAllowed(row))
        THEN [error |-> InsertDependencyError(row), insert |-> {}, ret |-> <<>>]
        ELSE [error |-> NoError, insert |-> {row},
              ret |-> [parent_task_id |-> parentTaskId, child_task_id |-> childTaskId,
                       dependency_type |-> dependencyType, changes |-> 1]]

(* addTaskDependency up to its INSERT: the error it throws, or the row it       *)
(* stores and the value it returns.                                              *)
addTaskDependencyOutcome(projectId, parentTaskId, childTaskId, dependencyTypeArg) ==
    LET dependencyType == Default(dependencyTypeArg, "blocks")
        row == [project_id |-> projectId, parent_task_id |-> parentTaskId,
                child_task_id |-> childTaskId, dependency_type |-> dependencyType]
    IN  IF parentTaskId \notin DOMAIN tasks
        THEN [error |-> "Parent task not found", insert |-> {}, ret |-> <<>>]
        ELSE IF childTaskId \notin DOMAIN tasks
        THEN [error |-> "Child task not found", insert |-> {}, ret |-> <<>>]
        ELSE IF wouldCreateCircularDependency(parentTaskId, childTaskId)
        THEN [error |-> CycleDetected, insert |-> {}, ret |-> <<>>]
        ELSE IF ~runCustom(InsertDependencyAllowed(row))
        THEN [error |-> InsertDependencyError(row), insert |-> {}, ret |-> <<>>]
        ELSE [error |-> NoError, insert |-> {row},
              ret |-> [parent_task_id |-> parentTaskId, child_task_id |-> childTaskId,
                       dependency_type |-> dependencyType, changes |-> 1]]

addTaskDependency(projectId, parentTaskId, childTaskId, dependencyTypeArg) ==
    LET args == [project_id |-> projectId, parent_task_id |-> parentTaskId,
                 child_task_id |-> childTaskId, dependency_type |-> dependencyTypeArg]
        o == addTaskDependencyOutcome(projectId, parentTaskId, childTaskId, dependencyTypeArg)
    IN  /\ Cardinality(task_dependencies \cup o.insert) <= MaxDeps
        /\ task_dependencies' = task_dependencies \cup o.insert
        /\ result' = [op |-> "addTaskDependency", error |-> o.error,
                      args |-> args, ret |-> o.ret]
        /\ UNCHANGED <<projects, tasks, blockers, blocker_impacts, decisions, calls, migrations, log>>

(* Mutant: the dependency_type filter is never added to the DELETE. *)
removeTaskDependencyMatches_anyType(parentTaskId, childTaskId, dependencyTypeArg) ==
    {d \in task_dependencies :
        d.parent_task_id = parentTaskId /\ d.child_task_id = childTaskId}

(* DELETE FROM task_dependencies WHERE parent_task_id = ? AND child_task_id = ?  *)
(* [AND dependency_type = ?]: the rows removeTaskDependency deletes.             *)
removeTaskDependencyMatches(parentTaskId, childTaskId, dependencyTypeArg) ==
    LET dependencyType == Default(dependencyTypeArg, NULL)
    IN  runCustom({d \in task_dependencies :
                      /\ d.parent_task_id = parentTaskId
                      /\ d.child_task_id = childTaskId
                      /\ (Falsy(dependencyType) \/ d.dependency_type = dependencyType)})

removeTaskDependency(parentTaskId, childTaskId, dependencyTypeArg) ==
    LET args == [parent_task_id |-> parentTaskId, child_task_id |-> childTaskId,
                 dependency_type |-> dependencyTypeArg]
        matched == removeTaskDependencyMatches(parentTaskId, childTaskId, dependencyTypeArg)
    IN  /\ task_dependencies' = task_dependencies \ matched
        /\ result' = Returned("removeTaskDependency", args,
                              [success |-> Cardinality(matched) > 0,
                               changes |-> Cardinality(matched)])
        /\ UNCHANGED <<projects, tasks, blockers, blocker_impacts, decisions, calls, migrations, log>>

(* getTaskDependencies: the edges into the task joined with their parent, and    *)
(* the edges out of it joined with their child.                                  *)
getTaskDependenciesRows(taskId) ==
    [depends_on |->
        {[parent_task_id |-> d.parent_task_id, dependency_type |-> d.dependency_type,
          parent_title |-> tasks[d.parent_task_id].title,
          parent_status |-> tasks[d.parent_task_id].status] :
            d \in {e \in task_dependencies :
                      e.child_task_id = taskId /\ e.parent_task_id \in DOMAIN tasks}},
     blocks |->
        {[child_task_id |-> d.child_task_id, dependency_type |-> d.dependency_type,
          child_title |-> tasks[d.child_task_id].title,
          child_status |-> tasks[d.child_task_id].status] :
            d \in {e \in task_dependencies :
                      e.parent_task_id = taskId /\ e.child_task_id \in DOMAIN tasks}}]

getTaskDependencies(taskId) ==
    /\ result' = Returned("getTaskDependencies", [task_id |-> taskId],
                          getTaskDependenciesRows(taskId))
    /\ UNCHANGED <<tables, calls, migrations, log>>

(* An argument the caller left out of a tool call. *)
NoId == -1

(* The manage_task_dependencies tool: resolve the project of the current         *)
(* branch, then dispatch on the action.  dependency_type defaults to 'blocks'    *)
(* for every action.  Errors are caught and reported as an isError reply.        *)
manageTaskDependencies(targs) ==
    LET dependency_type == Default(targs.dependency_type, "blocks")
        context == getCurrentContext(detectGitBranch)
        Reply(err, ret) == [op |-> "manage_task_dependencies", error |-> err,
                            args |-> targs, ret |-> ret]
        pairMissing == targs.parent_task_id = NoId \/ targs.child_task_id = NoId
    IN  IF context = {}
        THEN /\ result' = Reply(NoContext, <<>>)
             /\ UNCHANGED <<tables, calls, migrations, log>>
        ELSE \E project \in context :
          CASE targs.action = "add" ->
                 IF pairMissing
                 THEN /\ result' = Reply("parent_task_id and child_task_id are required", <<>>)
                      /\ UNCHANGED <<tables, calls, migrations, log>>
                 ELSE LET o == addTaskDependencyOutcome(project, targs.parent_task_id,
                                                        targs.child_task_id, dependency_type)
                      IN  /\ Cardinality(task_dependencies \cup o.insert) <= MaxDeps
                          /\ task_dependencies' = task_dependencies \cup o.insert
                          /\ result' = Reply(o.error, o.ret)
                          /\ UNCHANGED <<projects, tasks, blockers, blocker_impacts, decisions, calls, migrations, log>>
            [] targs.action = "remove" ->
                 IF pairMissing
                 THEN /\ result' = Reply("parent_task_id and child_task_id are required", <<>>)
                      /\ UNCHANGED <<tables, calls, migrations, log>>
                 ELSE LET matched == removeTaskDependencyMatches(targs.parent_task_id,
                                         targs.child_task_id, dependency_type)
                      IN  /\ task_dependencies' = task_dependencies \ matched
                          /\ result' = Reply(NoError, [success |-> Cardinality(matched) > 0])
                          /\ UNCHANGED <<projects, tasks, blockers, blocker_impacts, decisions, calls, migrations, log>>
            [] targs.action = "query" ->
                 IF targs.task_id = NoId
                 THEN /\ result' = Reply("task_id is required for query action", <<>>)
                      /\ UNCHANGED <<tables, calls, migrations, log>>
                 ELSE /\ result' = Reply(NoError, getTaskDependenciesRows(targs.task_id))
                      /\ UNCHANGED <<tables, calls, migrations, log>>
            [] targs.action = "check_circular" ->
                 IF pairMissing
                 THEN /\ result' = Reply("parent_task_id and child_task_id are required", <<>>)
                      /\ UNCHANGED <<tables, calls, migrations, log>>
                 ELSE /\ result' = Reply(NoError,
                                         [wouldCreateCircle |->
                                            wouldCreateCircularDependency(
                                               targs.parent_task_id, targs.child_task_id)])
                      /\ UNCHANGED <<tables, calls, migrations, log>>
            [] OTHER ->
                 /\ result' = Reply("Unknown action", <<>>)
                 /\ UNCHANGED <<tables, calls, migrations, log>>

----------------------------------------------------------------------------
(* Blockers and their impacts. *)

AllowedBlockerFields == {"title", "description", "blocker_type", "severity", "status",
                         "owner", "external_ref", "resolution_notes"}

(* Columns of blockers declared NOT NULL. *)
NotNullBlockerFields == {"title", "blocker_type", "severity", "status"}

createBlocker(projectId, blockerData) ==
    LET args == [project_id |-> projectId, blockerData |-> blockerData] IN
    /\ DOMAIN blockers # BlockerIds
    /\ LET blockerId == generateId(DOMAIN blockers, BlockerIds)
           blocker_type == Default(blockerData.blocker_type, "external")
           severity == Default(blockerData.severity, "medium")
       IN  IF Falsy(blockerData.title)
           THEN /\ result' = Threw("createBlocker", args,
                                   "title is required for blocker creation", <<>>)
                /\ UNCHANGED <<tables, calls, migrations, log>>
           ELSE IF ~runCustom(/\ projectId \in DOMAIN projects
                              /\ blocker_type # NULL
                              /\ severity # NULL)
           THEN /\ result' = Threw("createBlocker", args, SqliteConstraint, <<>>)
                /\ UNCHANGED <<tables, calls, migrations, log>>
           ELSE /\ blockers' = [i \in DOMAIN blockers \cup {blockerId} |->
                                  IF i = blockerId
                                  THEN [project_id |-> projectId,
                                        title |-> blockerData.title,
                                        description |-> Bind(blockerData.description),
                                        blocker_type |-> blocker_type,
                                        severity |-> severity,
                                        status |-> "open",
                                        owner |-> Bind(blockerData.owner),
                                        external_ref |-> Bind(blockerData.external_ref),
                                        resolution_notes |-> NULL,
                                        resolved_at |-> NULL]
                                  ELSE blockers[i]]
                /\ result' = Returned("createBlocker", args,
                                      [blocker_id |-> blockerId, status |-> "open",
                                       changes |-> 1])
                /\ UNCHANGED <<projects, tasks, task_dependencies, blocker_impacts, decisions, calls, migrations, log>>

(* Mutant: resolved_at is not added to the UPDATE. *)
ApplyBlockerUpdates_noStamp(row, updates) ==
    [f \in DOMAIN row |->
        IF f \in AllowedBlockerFields /\ updates[f] # UNDEF THEN updates[f]
        ELSE row[f]]

(* The row after UPDATE blockers SET <the allowed fields given> [, resolved_at] *)
ApplyBlockerUpdates(row, updates) ==
    [f \in DOMAIN row |->
        IF f \in AllowedBlockerFields /\ updates[f] # UNDEF THEN updates[f]
        ELSE IF f = "resolved_at" /\ updates.status = "resolved" THEN "now"
        ELSE row[f]]

updateBlocker(blockerId, updates) ==
    LET args == [blocker_id |-> blockerId, updates |-> updates]
        updateFields == {f \in AllowedBlockerFields : updates[f] # UNDEF}
    IN  IF updateFields = {}
        THEN /\ result' = Threw("updateBlocker", args, "No valid fields to update", <<>>)
             /\ UNCHANGED <<tables, calls, migrations, log>>
        ELSE IF blockerId \notin DOMAIN blockers
        THEN /\ result' = Threw("updateBlocker", args, "Blocker not found", <<>>)
             /\ UNCHANGED <<tables, calls, migrations, log>>
        ELSE IF ~runCustom(\A f \in NotNullBlockerFields : updates[f] # NULL)
        THEN /\ result' = Threw("updateBlocker", args, SqliteConstraint, <<>>)
             /\ UNCHANGED <<tables, calls, migrations, log>>
        ELSE /\ blockers' = [blockers EXCEPT ![blockerId] = ApplyBlockerUpdates(@, updates)]
             /\ result' = Returned("updateBlocker", args,
                                   [blocker_id |-> blockerId, changes |-> 1])
             /\ UNCHANGED <<projects, tasks, task_dependencies, blocker_impacts, decisions, calls, migrations, log>>

(* Mutant: the table without its UNIQUE constraint. *)
InsertImpactAllowed_noUnique(row) ==
    /\ row.blocker_id \in DOMAIN blockers
    /\ row.task_id \in DOMAIN tasks
    /\ row.impact_type # NULL

(* INSERT INTO blocker_impacts under the table's constraints: the two foreign   *)
(* keys, NOT NULL impact_type and UNIQUE (blocker_id, task_id, impact_type).    *)
InsertImpactAllowed(row) ==
    /\ row.blocker_id \in DOMAIN blockers
    /\ row.task_id \in DOMAIN tasks
    /\ row.impact_type # NULL
    /\ row \notin blocker_impacts

(* Mutant: an impact sets the status of the task it is on to 'blocked'. *)
addBlockerImpact_marksBlocked(blockerId, taskId, impactData) ==
    LET impact_type == Default(impactData.impact_type, "blocks")
        args == [blocker_id |-> blockerId, task_id |-> taskId, impactData |-> impactData]
        row == [blocker_id |-> blockerId, task_id |-> taskId, impact_type |-> impact_type]
    IN  IF ~runCustom(InsertImpactAllowed(row))
        THEN /\ result' = Threw("addBlockerImpact", args, SqliteConstraint, <<>>)
             /\ UNCHANGED <<tables, calls, migrations, log>>
        ELSE /\ Cardinality(blocker_impacts) < MaxImpacts
             /\ blocker_impacts' = blocker_impacts \cup {row}
             /\ tasks' = [tasks EXCEPT ![taskId].status = "blocked"]
             /\ result' = Returned("addBlockerImpact", args,
                                   [blocker_id |-> blockerId, task_id |-> taskId,
                                    impact_type |-> impact_type, changes |-> 1])
             /\ UNCHANGED <<projects, task_dependencies, blockers, decisions, calls, migrations, log>>

addBlockerImpact(blockerId, taskId, impactData) ==
    LET impact_type == Default(impactData.impact_type, "blocks")
        args == [blocker_id |-> blockerId, task_id |-> taskId, impactData |-> impactData]
        row == [blocker_id |-> blockerId, task_id |-> taskId, impact_type |-> impact_type]
    IN  IF ~runCustom(InsertImpactAllowed(row))
        THEN /\ result' = Threw("addBlockerImpact", args,
                                IF row \in blocker_impacts THEN SqliteUnique
                                ELSE SqliteConstraint, <<>>)
             /\ UNCHANGED <<tables, calls, migrations, log>>
        ELSE /\ Cardinality(blocker_impacts) < MaxImpacts
             /\ blocker_impacts' = blocker_impacts \cup {row}
             /\ result' = Returned("addBlockerImpact", args,
                                   [blocker_id |-> blockerId, task_id |-> taskId,
                                    impact_type |-> impact_type, changes |-> 1])
             /\ UNCHANGED <<projects, tasks, task_dependencies, blockers, decisions, calls, migrations, log>>

(* DELETE FROM blocker_impacts WHERE blocker_id = ? AND task_id = ?              *)
(* [AND impact_type = ?]: the rows removeBlockerImpact deletes.                  *)
removeBlockerImpactMatches(blockerId, taskId, impactTypeArg) ==
    LET impactType == Default(impactTypeArg, NULL)
    IN  runCustom({bi \in blocker_impacts :
                      /\ bi.blocker_id = blockerId
                      /\ bi.task_id = taskId
                      /\ (Falsy(impactType) \/ bi.impact_type = impactType)})

removeBlockerImpact(blockerId, taskId, impactTypeArg) ==
    LET args == [blocker_id |-> blockerId, task_id |-> taskId, impact_type |-> impactTypeArg]
        matched == removeBlockerImpactMatches(blockerId, taskId, impactTypeArg)
    IN  /\ blocker_impacts' = blocker_impacts \ matched
        /\ result' = Returned("removeBlockerImpact", args,
                              [success |-> Cardinality(matched) > 0,
                               changes |-> Cardinality(matched)])
        /\ UNCHANGED <<projects, tasks, task_dependencies, blockers, decisions, calls, migrations, log>>

(* DELETE FROM blockers WHERE id = ?, with the ON DELETE CASCADE of              *)
(* blocker_impacts (blocker_id).                                                 *)
deleteBlocker(blockerId) ==
    LET args == [blocker_id |-> blockerId] IN
    IF runCustom(blockerId \notin DOMAIN blockers)
    THEN /\ result' = Threw("deleteBlocker", args, "Blocker not found", <<>>)
         /\ UNCHANGED <<tables, calls, migrations, log>>
    ELSE /\ blockers' = [i \in DOMAIN blockers \ {blockerId} |-> blockers[i]]
         /\ blocker_impacts' = {bi \in blocker_impacts : bi.blocker_id # blockerId}
         /\ result' = Returned("deleteBlocker", args, [blocker_id |-> blockerId, changes |-> 1])
         /\ UNCHANGED <<projects, tasks, task_dependencies, decisions, calls, migrations, log>>

(* The text order SQLite sorts t.priority by. *)
PriorityRank(priority) ==
    CASE priority = "high" -> 1 [] priority = "low" -> 2 [] priority = "medium" -> 3
      [] OTHER -> 0

(* The groups of getTasksBlockedByBlockers: tasks t JOIN blocker_impacts bi     *)
(* JOIN blockers b WHERE t.project_id = ? AND b.status IN ('open',              *)
(* 'in-progress') GROUP BY t.id, with COUNT(bi.id) as blocker_count.            *)
BlockedTaskGroups(projectId) ==
    LET joined(t) == {bi \in blocker_impacts :
                         /\ bi.task_id = t
                         /\ bi.blocker_id \in DOMAIN blockers
                         /\ blockers[bi.blocker_id].status \in {"open", "in-progress"}}
    IN  {[id |-> t, priority |-> tasks[t].priority,
          blocker_count |-> Cardinality(joined(t))] :
            t \in {u \in DOMAIN tasks : tasks[u].project_id = projectId /\ joined(u) # {}}}

(* ORDER BY blocker_count DESC, t.priority DESC: the orders the rows may come in. *)
OrderedByCount(groups) ==
    {rows \in [1..Cardinality(groups) -> groups] :
        /\ \A i, j \in DOMAIN rows : i # j => rows[i] # rows[j]
        /\ \A i, j \in DOMAIN rows :
              i < j => \/ rows[i].blocker_count > rows[j].blocker_count
                       \/ /\ rows[i].blocker_count = rows[j].blocker_count
                          /\ PriorityRank(rows[i].priority) >= PriorityRank(rows[j].priority)}

getTasksBlockedByBlockers(projectId) ==
    /\ \E rows \in OrderedByCount(BlockedTaskGroups(projectId)) :
          result' = Returned("getTasksBlockedByBlockers", [project_id |-> projectId], rows)
    /\ UNCHANGED <<tables, calls, migrations, log>>

----------------------------------------------------------------------------
(* Decisions. *)

DecisionTypes == {"architectural", "user-preference", "technical-choice",
                  "approach-rejected", "implementation-detail"}

NoActiveProject == "No active project found"

DecisionFieldsRequired == "decision_type, title, and description are required"

InvalidDecisionType == "Invalid decision_type"

DecisionNotFound == "Decision not found"

(* recordDecision up to its return: the error it throws, or the id and row it   *)
(* inserts.                                                                     *)
recordDecisionOutcome(decisionData) ==
    IF getCurrentActiveProject = {}
    THEN {[error |-> NoActiveProject, id |-> FakeId, row |-> <<>>]}
    ELSE IF \/ Falsy(decisionData.decision_type)
            \/ Falsy(decisionData.title)
            \/ Falsy(decisionData.description)
    THEN {[error |-> DecisionFieldsRequired, id |-> FakeId, row |-> <<>>]}
    ELSE IF decisionData.decision_type \notin DecisionTypes
    THEN {[error |-> InvalidDecisionType, id |-> FakeId, row |-> <<>>]}
    ELSE {[error |-> NoError,
           id |-> generateId(DOMAIN decisions, DecisionIds),
           row |-> [project_id |-> currentProject,
                    decision_type |-> decisionData.decision_type,
                    title |-> decisionData.title,
                    status |-> "active",
                    superseded_by |-> NULL]] :
             currentProject \in getCurrentActiveProject}

(* The decisions table after the INSERT of an outcome that has a row. *)
WithDecision(o) ==
    [i \in DOMAIN decisions \cup {o.id} |-> IF i = o.id THEN o.row ELSE decisions[i]]

recordDecision(decisionData) ==
    /\ DOMAIN decisions # DecisionIds
    /\ \E o \in recordDecisionOutcome(decisionData) :
          /\ decisions' = IF o.error = NoError THEN WithDecision(o) ELSE decisions
          /\ result' = [op |-> "recordDecision", error |-> o.error,
                        args |-> [decisionData |-> decisionData],
                        ret |-> IF o.error = NoError THEN [decision_id |-> o.id] ELSE <<>>]
    /\ UNCHANGED <<projects, tasks, task_dependencies, blockers, blocker_impacts, calls, migrations, log>>

(* supersededDecision: record the new decision, then UPDATE decisions SET       *)
(* status = 'superseded', superseded_by = <new id> WHERE id = <old id>, and     *)
(* throw if that changed no row.                                                *)
supersededDecision(decisionId, newDecisionData) ==
    LET args == [decision_id |-> decisionId, newDecisionData |-> newDecisionData] IN
    /\ DOMAIN decisions # DecisionIds
    /\ \E newDecision \in recordDecisionOutcome(newDecisionData) :
          IF newDecision.error # NoError
          THEN /\ result' = Threw("supersededDecision", args, newDecision.error, <<>>)
               /\ decisions' = decisions
          ELSE LET recorded == WithDecision(newDecision)
               IN  IF decisionId \notin DOMAIN recorded
                   THEN /\ decisions' = recorded
                        /\ result' = Threw("supersededDecision", args, DecisionNotFound, <<>>)
                   ELSE /\ decisions' = [recorded EXCEPT ![decisionId] =
                                            [@ EXCEPT !.status = "superseded",
                                                      !.superseded_by = newDecision.id]]
                        /\ result' = Returned("supersededDecision", args,
                                              [old_decision_id |-> decisionId,
                                               new_decision_id |-> newDecision.id])
    /\ UNCHANGED <<projects, tasks, task_dependencies, blockers, blocker_impacts, calls, migrations, log>>

----------------------------------------------------------------------------
(* The tools of the server that resolve the project themselves, and            *)
(* clear_context.                                                              *)

(* updateTaskStatus of the Database: the latest active project of the store,    *)
(* whatever its branch, then the action of the call.                            *)
updateTaskStatus(taskData) ==
    LET fields == [f \in UpdatableTaskFields |-> taskData[f]]
        Reply(err) == [op |-> "update_task_status", error |-> err,
                       args |-> taskData, ret |-> <<>>]
    IN  IF getCurrentActiveProject = {}
        THEN /\ result' = Reply(NoActiveProject)
             /\ UNCHANGED <<tables, calls, migrations, log>>
        ELSE \E currentProject \in getCurrentActiveProject :
          CASE taskData.action = "create" -> createTask(currentProject, fields)
            [] taskData.action \in {"update", "complete", "delete"}
                  /\ taskData.task_id = NoId ->
                 /\ result' = Reply("task_id required")
                 /\ UNCHANGED <<tables, calls, migrations, log>>
            [] taskData.action = "update" /\ taskData.task_id # NoId ->
                 updateTask(taskData.task_id, fields)
            [] taskData.action = "complete" /\ taskData.task_id # NoId ->
                 completeTask(taskData.task_id, taskData.notes)
            [] taskData.action = "delete" /\ taskData.task_id # NoId ->
                 deleteTask(taskData.task_id)
            [] OTHER ->
                 /\ result' = Reply("Unknown task action")
                 /\ UNCHANGED <<tables, calls, migrations, log>>

(* The manage_blockers tool: the active project of the current branch, then     *)
(* the action of the call (the read-only query is left to getBlockers).         *)
manageBlockers(bargs) ==
    LET context == getCurrentContext(detectGitBranch)
        data == [f \in AllowedBlockerFields |-> bargs[f]]
        Reply(err) == [op |-> "manage_blockers", error |-> err,
                       args |-> bargs, ret |-> <<>>]
    IN  IF context = {}
        THEN /\ result' = Reply(NoContext)
             /\ UNCHANGED <<tables, calls, migrations, log>>
        ELSE \E project \in context :
          CASE bargs.action = "create" ->
                 IF Falsy(bargs.title)
                 THEN /\ result' = Reply("title is required for create action")
                      /\ UNCHANGED <<tables, calls, migrations, log>>
                 ELSE createBlocker(project, data)
            [] bargs.action \in {"update", "resolve", "delete"} /\ bargs.blocker_id = NoId ->
                 /\ result' = Reply("blocker_id is required")
                 /\ UNCHANGED <<tables, calls, migrations, log>>
            [] bargs.action = "update" /\ bargs.blocker_id # NoId ->
                 updateBlocker(bargs.blocker_id, data)
            [] bargs.action = "resolve" /\ bargs.blocker_id # NoId ->
                 updateBlocker(bargs.blocker_id,
                               [f \in AllowedBlockerFields |->
                                   IF f = "status" THEN "resolved"
                                   ELSE IF f = "resolution_notes"
                                           /\ ~Falsy(bargs.resolution_notes)
                                        THEN bargs.resolution_notes
                                   ELSE UNDEF])
            [] bargs.action = "delete" /\ bargs.blocker_id # NoId ->
                 deleteBlocker(bargs.blocker_id)
            [] bargs.action \in {"add_impact", "remove_impact"}
                  /\ (bargs.blocker_id = NoId \/ bargs.task_id = NoId) ->
                 /\ result' = Reply("blocker_id and task_id are required")
                 /\ UNCHANGED <<tables, calls, migrations, log>>
            [] bargs.action = "add_impact"
                  /\ bargs.blocker_id # NoId /\ bargs.task_id # NoId ->
                 addBlockerImpact(bargs.blocker_id, bargs.task_id,
                                  [impact_type |-> bargs.impact_type])
            [] bargs.action = "remove_impact"
                  /\ bargs.blocker_id # NoId /\ bargs.task_id # NoId ->
                 removeBlockerImpact(bargs.blocker_id, bargs.task_id, bargs.impact_type)
            [] OTHER ->
                 /\ result' = Reply("Unknown action")
                 /\ UNCHANGED <<tables, calls, migrations, log>>

(* DELETE FROM projects WHERE id = ?, with the ON DELETE CASCADE of tasks,      *)
(* blockers and decisions (project_id), and through them of task_dependencies   *)
(* and blocker_impacts.  task_dependencies.project_id is no foreign key.        *)
DeleteProjectRow(projectId) ==
    LET goneTasks == {t \in DOMAIN tasks : tasks[t].project_id = projectId}
        goneBlockers == {b \in DOMAIN blockers : blockers[b].project_id = projectId}
    IN  /\ projects' = [p \in DOMAIN projects \ {projectId} |-> projects[p]]
        /\ tasks' = [t \in DOMAIN tasks \ goneTasks |-> tasks[t]]
        /\ task_dependencies' =
              {d \in task_dependencies :
                  d.parent_task_id \notin goneTasks /\ d.child_task_id \notin goneTasks}
        /\ blockers' = [b \in DOMAIN blockers \ goneBlockers |-> blockers[b]]
        /\ blocker_impacts' =
              {i \in blocker_impacts :
                  i.blocker_id \notin goneBlockers /\ i.task_id \notin goneTasks}
        /\ decisions' = [d \in {e \in DOMAIN decisions :
                                   decisions[e].project_id # projectId} |-> decisions[d]]

NullDbError == "TypeError: Cannot read properties of null (reading 'run')"

(* clearContext of the Database.  Scope 'all' runs its DELETE on this.db, which *)
(* the constructor sets to null and nothing ever assigns.                       *)
clearContext(args) ==
    CASE args.scope = "current_project" ->
           IF getCurrentActiveProject = {}
           THEN /\ result' = Returned("clear_context", args,
                                      [message |-> "No active project to clear", count |-> 0])
                /\ UNCHANGED <<tables, calls, migrations, log>>
           ELSE \E project \in getCurrentActiveProject :
                  /\ DeleteProjectRow(project)
                  /\ result' = Returned("clear_context", args,
                                        [message |-> "Cleared context for project",
                                         count |-> 1])
                  /\ UNCHANGED <<calls, migrations, log>>
      [] args.scope = "current_branch" ->
           /\ result' = Returned("clear_context", args,
                                 [message |-> "Branch-specific clearing not yet implemented",
                                  count |-> 0])
           /\ UNCHANGED <<tables, calls, migrations, log>>
      [] args.scope = "all" ->
           /\ result' = Threw("clear_context", args, NullDbError, <<>>)
           /\ UNCHANGED <<tables, calls, migrations, log>>
      [] OTHER ->
           /\ result' = Returned("clear_context", args, [message |-> "", count |-> 0])
           /\ UNCHANGED <<tables, calls, migrations, log>>

(* Mutant: the confirmation flag is not looked at. *)
Confirmed_always(args) == TRUE

(* args.confirm is truthy (the schema makes it a boolean; it may be absent). *)
Confirmed(args) == "confirm" \in DOMAIN args /\ args.confirm

(* The clear_context tool. *)
clear_context(args) ==
    IF ~Confirmed(args)
    THEN /\ result' = Returned("clear_context", args,
                               [message |-> "Context clearing requires explicit confirmation",
                                count |-> 0])
         /\ UNCHANGED <<tables, calls, migrations, log>>
    ELSE clearContext(args)

----------------------------------------------------------------------------
(* The asynchronous methods, one database statement at a time.  A step runs     *)
(* the statement the call awaits and the code after it, up to the next await    *)
(* or to the end of the method; steps of the calls in flight interleave.        *)

MaxExpanded == MaxTasks

(* The call in slot c ends with the given reply. *)
Finish(c, reply) ==
    /\ result' = reply
    /\ calls' = [calls EXCEPT ![c] = NoCall]
    /\ UNCHANGED <<migrations, log>>

(* The call in slot c goes on to await its next statement. *)
Await(c, op, pc, args, locals) ==
    /\ calls' = [calls EXCEPT ![c] = [op |-> op, pc |-> pc, args |-> args, locals |-> locals]]
    /\ UNCHANGED <<result, migrations, log>>

(* Mutant: the loop without its visited test. *)
RECURSIVE SearchLoop_noVisitedTest(_, _, _)
SearchLoop_noVisitedTest(stack, visited, parentTaskId) ==
    IF stack = <<>>
    THEN [pc |-> "return", found |-> FALSE, stack |-> stack, visited |-> visited,
          currentId |-> NoId]
    ELSE LET currentId == stack[Len(stack)]
             popped == SubSeq(stack, 1, Len(stack) - 1)
         IN  IF currentId = parentTaskId
             THEN [pc |-> "return", found |-> TRUE, stack |-> popped,
                   visited |-> visited \cup {currentId}, currentId |-> currentId]
             ELSE [pc |-> "dependents", found |-> FALSE, stack |-> popped,
                   visited |-> visited \cup {currentId}, currentId |-> currentId]

(* The while loop of wouldCreateCircularDependency from the top of an           *)
(* iteration to its next await db.all (pc "dependents") or to the return of     *)
(* the method.                                                                  *)
RECURSIVE SearchLoop(_, _, _)
SearchLoop(stack, visited, parentTaskId) ==
    IF stack = <<>>
    THEN [pc |-> "return", found |-> FALSE, stack |-> stack, visited |-> visited,
          currentId |-> NoId]
    ELSE LET currentId == stack[Len(stack)]
             popped == SubSeq(stack, 1, Len(stack) - 1)
         IN  IF currentId \in visited
             THEN SearchLoop(popped, visited, parentTaskId)
             ELSE IF currentId = parentTaskId
             THEN [pc |-> "return", found |-> TRUE, stack |-> popped,
                   visited |-> visited \cup {currentId}, currentId |-> currentId]
             ELSE [pc |-> "dependents", found |-> FALSE, stack |-> popped,
                   visited |-> visited \cup {currentId}, currentId |-> currentId]

(* The local variables of the search at an await. *)
SearchLocals(loop, expanded) ==
    [stack |-> loop.stack, visited |-> loop.visited, currentId |-> loop.currentId,
     expanded |-> expanded]

(* wouldCreateCircularDependency, called by check_circular: from its entry to   *)
(* the first await or to its return.                                            *)
wouldCreateCircularDependency_begin(c, parentTaskId, childTaskId) ==
    LET args == [parent_task_id |-> parentTaskId, child_task_id |-> childTaskId]
        loop == SearchLoop(<<childTaskId>>, {}, parentTaskId)
    IN  /\ calls[c].pc = "idle"
        /\ IF loop.pc = "return"
           THEN /\ result' = Returned("wouldCreateCircularDependency", args,
                                      [wouldCreateCircle |-> loop.found])
                /\ UNCHANGED <<calls, migrations, log>>
           ELSE Await(c, "wouldCreateCircularDependency", "dependents", args,
                      SearchLocals(loop, <<>>))
        /\ UNCHANGED tables

(* await db.all('SELECT child_task_id ... WHERE parent_task_id = ?') for the    *)
(* current task, the push of its rows, and the loop up to the next await.       *)
wouldCreateCircularDependency_dependents(c) ==
    LET call == calls[c]
        locals == call.locals
        loop == SearchLoop(locals.stack \o Dependents(locals.currentId), locals.visited,
                           call.args.parent_task_id)
        expanded == Append(locals.expanded, locals.currentId)
    IN  /\ call.pc = "dependents"
        /\ Len(locals.expanded) < MaxExpanded
        /\ IF loop.pc = "dependents"
           THEN Await(c, call.op, "dependents", call.args, SearchLocals(loop, expanded))
           ELSE IF call.op = "wouldCreateCircularDependency"
           THEN Finish(c, Returned(call.op, call.args, [wouldCreateCircle |-> loop.found]))
           ELSE IF loop.found
           THEN Finish(c, Threw(call.op, call.args, CycleDetected, <<>>))
           ELSE Await(c, call.op, "insert", call.args, SearchLocals(loop, expanded))
        /\ UNCHANGED tables

(* addTaskDependency: await db.get of the parent task. *)
addTaskDependency_begin(c, projectId, parentTaskId, childTaskId, dependencyTypeArg) ==
    LET args == [project_id |-> projectId, parent_task_id |-> parentTaskId,
                 child_task_id |-> childTaskId, dependency_type |-> dependencyTypeArg]
    IN  /\ calls[c].pc = "idle"
        /\ Await(c, "addTaskDependency", "getChild", args,
                 [parentTask |-> parentTaskId \in DOMAIN tasks])
        /\ UNCHANGED tables

(* addTaskDependency: await db.get of the child task, the two not-found tests   *)
(* and the start of the cycle search.                                           *)
addTaskDependency_getChild(c) ==
    LET call == calls[c]
        childTask == call.args.child_task_id \in DOMAIN tasks
        loop == SearchLoop(<<call.args.child_task_id>>, {}, call.args.parent_task_id)
    IN  /\ call.pc = "getChild"
        /\ IF ~call.locals.parentTask
           THEN Finish(c, Threw(call.op, call.args, "Parent task not found", <<>>))
           ELSE IF ~childTask
           THEN Finish(c, Threw(call.op, call.args, "Child task not found", <<>>))
           ELSE IF loop.pc = "dependents"
           THEN Await(c, call.op, "dependents", call.args, SearchLocals(loop, <<>>))
           ELSE IF loop.found
           THEN Finish(c, Threw(call.op, call.args, CycleDetected, <<>>))
           ELSE Await(c, call.op, "insert", call.args, SearchLocals(loop, <<>>))
        /\ UNCHANGED tables

(* addTaskDependency: await runCustom of the INSERT, and the return. *)
addTaskDependency_insert(c) ==
    LET call == calls[c]
        dependencyType == Default(call.args.dependency_type, "blocks")
        row == [project_id |-> call.args.project_id,
                parent_task_id |-> call.args.parent_task_id,
                child_task_id |-> call.args.child_task_id,
                dependency_type |-> dependencyType]
    IN  /\ call.pc = "insert"
        /\ IF ~runCustom(InsertDependencyAllowed(row))
           THEN /\ Finish(c, Threw(call.op, call.args, InsertDependencyError(row), <<>>))
                /\ UNCHANGED tables
           ELSE /\ task_dependencies' = task_dependencies \cup {row}
                /\ Finish(c, Returned(call.op, call.args,
                                      [parent_task_id |-> row.parent_task_id,
                                       child_task_id |-> row.child_task_id,
                                       dependency_type |-> dependencyType,
                                       changes |-> 1]))
                /\ UNCHANGED <<projects, tasks, blockers, blocker_impacts, decisions>>

(* completeTask: await canCompleteTask and the test of its answer. *)
completeTask_begin(c, taskId, notes) ==
    LET args == [task_id |-> taskId, notes |-> notes]
        dependencyCheck == canCompleteTask(taskId)
    IN  /\ calls[c].pc = "idle"
        /\ IF ~dependencyCheck.can_complete
           THEN /\ result' = Threw("completeTask", args, Blocked,
                                   [blockedBy |-> {<<dep.title, dep.status>> :
                                                     dep \in dependencyCheck.unsatisfied_dependencies}])
                /\ UNCHANGED <<calls, migrations, log>>
           ELSE Await(c, "completeTask", "update", args,
                      [dependencyCheck |-> dependencyCheck])
        /\ UNCHANGED tables

(* completeTask: await db.run of the UPDATE, and the return. *)
completeTask_update(c) ==
    LET call == calls[c]
        taskId == call.args.task_id
    IN  /\ call.pc = "update"
        /\ IF taskId \notin DOMAIN tasks
           THEN /\ Finish(c, Threw(call.op, call.args, "Task not found", <<>>))
                /\ UNCHANGED tables
           ELSE /\ tasks' = [tasks EXCEPT ![taskId] =
                               [@ EXCEPT !.status = "completed",
                                         !.completed_at = "now",
                                         !.notes = IF Falsy(call.args.notes) THEN @
                                                   ELSE call.args.notes]]
                /\ Finish(c, Returned(call.op, call.args,
                                      [task_id |-> taskId, completed_at |-> "now",
                                       dependency_check |-> call.locals.dependencyCheck]))
                /\ UNCHANGED <<projects, task_dependencies, blockers, blocker_impacts,
                               decisions>>

----------------------------------------------------------------------------
(* The calls the model issues. *)

(* Ids a caller may pass: those of the tables and one that never exists. *)
TaskIdInputs == TaskIds \cup {FakeId}

BlockerIdInputs == BlockerIds \cup {FakeId}

NoTaskData == [title |-> UNDEF, description |-> UNDEF, status |-> UNDEF,
               priority |-> UNDEF, assignee |-> UNDEF, notes |-> UNDEF]

PlainTask == [NoTaskData EXCEPT !.title = "T"]

NoBlockerData == [title |-> UNDEF, description |-> UNDEF, blocker_type |-> UNDEF,
                  severity |-> UNDEF, status |-> UNDEF, owner |-> UNDEF,
                  external_ref |-> UNDEF, resolution_notes |-> UNDEF]

NoToolArgs == [action |-> UNDEF, parent_task_id |-> NoId, child_task_id |-> NoId,
               task_id |-> NoId, dependency_type |-> UNDEF]

(* One project, active on the current branch, as initialize_context leaves it. *)
Init ==
    /\ projects = [p \in {1} |-> [branch |-> "main", status |-> "active", updated_at |-> 0]]
    /\ tasks = <<>>
    /\ task_dependencies = {}
    /\ blockers = <<>>
    /\ blocker_impacts = {}
    /\ decisions = <<>>
    /\ result = Returned("initializeContext", <<>>, <<>>)
    /\ calls = [c \in CallIds |-> NoCall]
    /\ migrations = getMigrations
    /\ log = [i \in DOMAIN getMigrations |-> getMigrations[i].version]

----------------------------------------------------------------------------
(* Spec: the dependency graph.  Tasks are created and deleted, edges of every  *)
(* type are added and removed directly and through the tool.                   *)

GraphToolArgs ==
    {[NoToolArgs EXCEPT !.action = "remove", !.parent_task_id = p, !.child_task_id = c] :
        p \in TaskIds, c \in TaskIds}
    \cup {[NoToolArgs EXCEPT !.action = "check_circular",
                             !.parent_task_id = p, !.child_task_id = c] :
            p \in TaskIdInputs, c \in TaskIdInputs}
    \cup {[NoToolArgs EXCEPT !.action = "query", !.task_id = t] : t \in TaskIdInputs}

Next ==
    \/ \E project \in getCurrentActiveProject : createTask(project, PlainTask)
    \/ \E taskId \in TaskIdInputs : deleteTask(taskId)
    \/ \E project \in getCurrentActiveProject, parent \in TaskIds, child \in TaskIds,
          type \in {UNDEF, "subtask", "prerequisite"} :
          addTaskDependency(project, parent, child, type)
    \/ \E parent \in TaskIds, child \in TaskIds, type \in {UNDEF, "subtask"} :
          removeTaskDependency(parent, child, type)
    \/ \E targs \in GraphToolArgs : manageTaskDependencies(targs)

Spec == Init /\ [][Next]_vars

----------------------------------------------------------------------------
(* SpecGate: the completion gate.  Tasks are created, updated and completed,   *)
(* and edges of every type are added into the last task from the others, so    *)
(* that it has up to MaxTasks - 1 parents.                                     *)

(* The title the caller gives the n-th task it creates. *)
TitleOf(n) == CASE n = 1 -> "A" [] n = 2 -> "B" [] n = 3 -> "C" [] OTHER -> "T"

GateChild == MaxTasks

NextGate ==
    \/ \E project \in getCurrentActiveProject :
          createTask(project, [NoTaskData EXCEPT !.title = TitleOf(Cardinality(DOMAIN tasks) + 1)])
    \/ \E taskId \in TaskIds, status \in {"completed", "in-progress"} :
          updateTask(taskId, [NoTaskData EXCEPT !.status = status])
    \/ \E taskId \in TaskIds, notes \in {UNDEF, "done"} : completeTask(taskId, notes)
    \/ \E project \in getCurrentActiveProject, parent \in TaskIds \ {GateChild},
          type \in {UNDEF, "subtask", "prerequisite"} :
          addTaskDependency(project, parent, GateChild, type)

SpecGate == Init /\ [][NextGate]_vars

----------------------------------------------------------------------------
(* SpecBlockers: blockers, their impacts on tasks, and task completion. *)

BlockerTasks == 2

NextBlockers ==
    \/ \E project \in getCurrentActiveProject :
          /\ Cardinality(DOMAIN tasks) < BlockerTasks
          /\ createTask(project, PlainTask)
    \/ \E taskId \in TaskIdInputs, notes \in {UNDEF, "done"} : completeTask(taskId, notes)
    \/ \E project \in getCurrentActiveProject :
          createBlocker(project, [NoBlockerData EXCEPT !.title = "B"])
    \/ \E blockerId \in BlockerIdInputs, status \in {"in-progress", "resolved"} :
          updateBlocker(blockerId, [NoBlockerData EXCEPT !.status = status])
    \/ \E blockerId \in BlockerIdInputs, taskId \in TaskIdInputs,
          type \in {UNDEF, "affects"} :
          addBlockerImpact(blockerId, taskId, [impact_type |-> type])
    \/ \E blockerId \in BlockerIdInputs, taskId \in TaskIdInputs, type \in {UNDEF, "blocks"} :
          removeBlockerImpact(blockerId, taskId, type)
    \/ \E blockerId \in BlockerIdInputs : deleteBlocker(blockerId)

SpecBlockers == Init /\ [][NextBlockers]_vars

----------------------------------------------------------------------------
(* SpecCascade: rows that reference tasks and blockers, and the deletion of    *)
(* what they reference.                                                        *)

CascadeTasks == 2

NextCascade ==
    \/ \E project \in getCurrentActiveProject :
          /\ Cardinality(DOMAIN tasks) < CascadeTasks
          /\ createTask(project, PlainTask)
    \/ \E taskId \in TaskIdInputs : deleteTask(taskId)
    \/ \E project \in getCurrentActiveProject, parent \in TaskIdInputs, child \in TaskIdInputs,
          type \in {UNDEF, "subtask"} :
          addTaskDependency(project, parent, child, type)
    \/ \E parent \in TaskIdInputs, child \in TaskIdInputs, type \in {UNDEF, "subtask"} :
          removeTaskDependency(parent, child, type)
    \/ \E project \in getCurrentActiveProject :
          createBlocker(project, [NoBlockerData EXCEPT !.title = "B"])
    \/ \E blockerId \in BlockerIdInputs, taskId \in TaskIdInputs,
          type \in {UNDEF, "affects"} :
          addBlockerImpact(blockerId, taskId, [impact_type |-> type])
    \/ \E blockerId \in BlockerIdInputs, taskId \in TaskIdInputs, type \in {UNDEF, "affects"} :
          removeBlockerImpact(blockerId, taskId, type)
    \/ \E blockerId \in BlockerIdInputs : deleteBlocker(blockerId)

SpecCascade == Init /\ [][NextCascade]_vars

----------------------------------------------------------------------------
(* SpecProjects: several projects in one store.  Tasks go to the latest active *)
(* project (update_task_status); edges and blockers go to the active project   *)
(* of the caller's branch (manage_task_dependencies, manage_blockers).         *)

ProjectTasks == 2

NextProjects ==
    \/ \E branch \in {"main", "feature"} : initializeContext(branch)
    \/ \E project \in getCurrentActiveProject :
          /\ Cardinality(DOMAIN tasks) < ProjectTasks
          /\ createTask(project, PlainTask)
    \/ \E project \in getCurrentContext(detectGitBranch), parent \in TaskIds, child \in TaskIds,
          type \in {UNDEF, "subtask"} :
          addTaskDependency(project, parent, child, type)
    \/ \E project \in getCurrentContext(detectGitBranch) :
          createBlocker(project, [NoBlockerData EXCEPT !.title = "B"])
    \/ \E blockerId \in BlockerIds, taskId \in TaskIds :
          addBlockerImpact(blockerId, taskId, [impact_type |-> UNDEF])

SpecProjects == Init /\ [][NextProjects]_vars

----------------------------------------------------------------------------
(* SpecLifecycle: the calls of update_task_status (create, update, complete,   *)
(* delete) with the task data a caller may give, and the creation, resolution  *)
(* and deletion of a blocker.                                                  *)

LifecycleTasks == 2

(* A task given every field. *)
FullTask == [title |-> "T", description |-> "d", status |-> "completed",
             priority |-> "high", assignee |-> "me", notes |-> "u"]

CreateInputs == {NoTaskData, [NoTaskData EXCEPT !.title = ""], PlainTask, FullTask}

UpdateInputs == {NoTaskData,
                 [NoTaskData EXCEPT !.status = "in-progress", !.notes = "u"],
                 [NoTaskData EXCEPT !.title = "U"],
                 [NoTaskData EXCEPT !.status = "completed"]}

NextLifecycle ==
    \/ \E project \in getCurrentActiveProject, taskData \in CreateInputs :
          /\ Cardinality(DOMAIN tasks) < LifecycleTasks
          /\ createTask(project, taskData)
    \/ \E taskId \in TaskIdInputs, updates \in UpdateInputs : updateTask(taskId, updates)
    \/ \E taskId \in TaskIdInputs : completeTask(taskId, UNDEF)
    \/ \E taskId \in TaskIdInputs : deleteTask(taskId)
    \/ \E project \in getCurrentActiveProject :
          createBlocker(project, [NoBlockerData EXCEPT !.title = "B"])
    \/ \E blockerId \in BlockerIdInputs,
          updates \in {NoBlockerData, [NoBlockerData EXCEPT !.status = "resolved"]} :
          updateBlocker(blockerId, updates)
    \/ \E blockerId \in BlockerIdInputs : deleteBlocker(blockerId)

SpecLifecycle == Init /\ [][NextLifecycle]_vars

----------------------------------------------------------------------------
(* SpecDecisions: decisions are recorded and superseded, beside task calls     *)
(* that can fail (a gated complete, a rejected dependency).                    *)

DecisionTasks == 2

DecisionInputs ==
    {[decision_type |-> "architectural", title |-> "D", description |-> "d"],
     [decision_type |-> "architectural", title |-> UNDEF, description |-> "d"],
     [decision_type |-> "other", title |-> "D", description |-> "d"]}

NextDecisions ==
    \/ \E decisionData \in DecisionInputs : recordDecision(decisionData)
    \/ \E decisionId \in DOMAIN decisions \cup {FakeId}, decisionData \in DecisionInputs :
          supersededDecision(decisionId, decisionData)
    \/ \E project \in getCurrentActiveProject :
          /\ Cardinality(DOMAIN tasks) < DecisionTasks
          /\ createTask(project, PlainTask)
    \/ \E taskId \in TaskIdInputs : completeTask(taskId, UNDEF)
    \/ \E project \in getCurrentActiveProject, parent \in TaskIdInputs, child \in TaskIdInputs :
          addTaskDependency(project, parent, child, UNDEF)

SpecDecisions == Init /\ [][NextDecisions]_vars

----------------------------------------------------------------------------
(* SpecContext: the tools as a caller on the current branch uses them, in a    *)
(* store whose projects belong to two branches, and clear_context.             *)

ContextTasks == 2

NoTaskToolArgs == [action |-> UNDEF, task_id |-> NoId, title |-> UNDEF,
                   description |-> UNDEF, status |-> UNDEF, priority |-> UNDEF,
                   assignee |-> UNDEF, notes |-> UNDEF]

NoBlockerToolArgs == [action |-> UNDEF, blocker_id |-> NoId, task_id |-> NoId,
                      title |-> UNDEF, description |-> UNDEF, blocker_type |-> UNDEF,
                      severity |-> UNDEF, status |-> UNDEF, owner |-> UNDEF,
                      external_ref |-> UNDEF, resolution_notes |-> UNDEF,
                      impact_type |-> UNDEF]

ClearInputs ==
    {[scope |-> scope] : scope \in {"current_project", "current_branch", "all"}}
    \cup {[scope |-> scope, confirm |-> confirm] :
             scope \in {"current_project", "current_branch", "all"},
             confirm \in BOOLEAN}

NextContext ==
    \/ \E branch \in {"main", "feature"} : initializeContext(branch)
    \/ /\ Cardinality(DOMAIN tasks) < ContextTasks
       /\ updateTaskStatus([NoTaskToolArgs EXCEPT !.action = "create", !.title = "T"])
    \/ \E parent \in 1..ContextTasks, child \in 1..ContextTasks :
          manageTaskDependencies([NoToolArgs EXCEPT !.action = "add",
                                                   !.parent_task_id = parent,
                                                   !.child_task_id = child])
    \/ manageBlockers([NoBlockerToolArgs EXCEPT !.action = "create", !.title = "B"])
    \/ \E blockerId \in BlockerIds, taskId \in 1..ContextTasks :
          manageBlockers([NoBlockerToolArgs EXCEPT !.action = "add_impact",
                                                  !.blocker_id = blockerId,
                                                  !.task_id = taskId])
    \/ \E args \in ClearInputs : clear_context(args)

SpecContext == Init /\ [][NextContext]_vars

----------------------------------------------------------------------------
(* SpecEnums: the tools given, for each enumerated field, a declared value or  *)
(* a value outside the declared set.                                           *)

EnumTasks == 2

Undeclared == "bogus"

NextEnums ==
    \/ \E value \in {UNDEF, Undeclared} :
          /\ Cardinality(DOMAIN tasks) < EnumTasks
          /\ updateTaskStatus([NoTaskToolArgs EXCEPT !.action = "create", !.title = "T",
                                                     !.status = value,
                                                     !.priority = value])
    \/ \E status \in {"blocked", Undeclared} :
          updateTaskStatus([NoTaskToolArgs EXCEPT !.action = "update", !.task_id = 1,
                                                  !.status = status])
    \/ \E dependencyType \in {UNDEF, Undeclared} :
          manageTaskDependencies([NoToolArgs EXCEPT !.action = "add",
                                                   !.parent_task_id = 1,
                                                   !.child_task_id = 2,
                                                   !.dependency_type = dependencyType])
    \/ \E value \in {UNDEF, Undeclared} :
          manageBlockers([NoBlockerToolArgs EXCEPT !.action = "create", !.title = "B",
                                                  !.blocker_type = value,
                                                  !.severity = value])
    \/ \E blockerId \in BlockerIds :
          manageBlockers([NoBlockerToolArgs EXCEPT !.action = "update",
                                                  !.blocker_id = blockerId,
                                                  !.status = Undeclared])
    \/ \E blockerId \in BlockerIds, impactType \in {UNDEF, Undeclared} :
          manageBlockers([NoBlockerToolArgs EXCEPT !.action = "add_impact",
                                                  !.blocker_id = blockerId,
                                                  !.task_id = 1,
                                                  !.impact_type = impactType])

SpecEnums == Init /\ [][NextEnums]_vars

----------------------------------------------------------------------------
(* SpecBlocked: tasks, a blocker with impacts of several types on them, and    *)
(* the query for the tasks held up by blockers.                                *)

BlockedTasks == 2

NextBlocked ==
    \/ \E project \in getCurrentActiveProject, priority \in {UNDEF, "high"} :
          /\ Cardinality(DOMAIN tasks) < BlockedTasks
          /\ createTask(project, [PlainTask EXCEPT !.priority = priority])
    \/ \E project \in getCurrentActiveProject :
          createBlocker(project, [NoBlockerData EXCEPT !.title = "B"])
    \/ \E blockerId \in BlockerIds, status \in {"in-progress", "resolved"} :
          updateBlocker(blockerId, [NoBlockerData EXCEPT !.status = status])
    \/ \E blockerId \in BlockerIds, taskId \in 1..BlockedTasks,
          type \in {UNDEF, "affects"} :
          addBlockerImpact(blockerId, taskId, [impact_type |-> type])
    \/ \E project \in DOMAIN projects : getTasksBlockedByBlockers(project)

SpecBlocked == Init /\ [][NextBlocked]_vars

----------------------------------------------------------------------------
(* SpecSearch: the cycle search over every edge set on the stored tasks, the   *)
(* sets with cycles included, one await at a time.                             *)

SearchTasks == 3

MaxSearchCalls == 1

SearchCalls == 1..MaxSearchCalls

(* A task row as createTask stores it for PlainTask. *)
StoredTask(projectId) ==
    [project_id |-> projectId, title |-> "T", description |-> NULL, status |-> "todo",
     priority |-> "medium", assignee |-> NULL, notes |-> NULL, completed_at |-> NULL]

(* The rows task_dependencies can hold between the given tasks: no row has      *)
(* parent_task_id = child_task_id.                                              *)
EdgeRows(ids) ==
    {[project_id |-> 1, parent_task_id |-> pair[1], child_task_id |-> pair[2],
      dependency_type |-> "blocks"] :
        pair \in {q \in ids \X ids : q[1] # q[2]}}

InitSearch ==
    /\ projects = [p \in {1} |-> [branch |-> "main", status |-> "active", updated_at |-> 0]]
    /\ tasks = [t \in 1..SearchTasks |-> StoredTask(1)]
    /\ task_dependencies \in SUBSET EdgeRows(1..SearchTasks)
    /\ blockers = <<>>
    /\ blocker_impacts = {}
    /\ decisions = <<>>
    /\ result = Returned("createTask", [project_id |-> 1, taskData |-> PlainTask],
                         [task_id |-> SearchTasks, title |-> "T", status |-> "todo"])
    /\ calls = [c \in CallIds |-> NoCall]
    /\ migrations = getMigrations
    /\ log = [i \in DOMAIN getMigrations |-> getMigrations[i].version]

NextSearch ==
    \/ \E c \in SearchCalls, parent \in TaskIdInputs, child \in TaskIdInputs :
          wouldCreateCircularDependency_begin(c, parent, child)
    \/ \E c \in SearchCalls : wouldCreateCircularDependency_dependents(c)

SpecSearch == InitSearch /\ [][NextSearch]_vars

(* The event loop runs the continuation of every statement that has resolved. *)
SpecSearchFair ==
    SpecSearch /\ \A c \in SearchCalls : WF_vars(wouldCreateCircularDependency_dependents(c))

----------------------------------------------------------------------------
(* SpecOverlap: add_dependency and complete calls in flight at the same time   *)
(* on stored tasks, their database statements interleaved, and status updates. *)

OverlapTasks == 2

InitOverlap ==
    /\ projects = [p \in {1} |-> [branch |-> "main", status |-> "active", updated_at |-> 0]]
    /\ tasks = [t \in 1..OverlapTasks |-> StoredTask(1)]
    /\ task_dependencies = {}
    /\ blockers = <<>>
    /\ blocker_impacts = {}
    /\ decisions = <<>>
    /\ result = Returned("createTask", [project_id |-> 1, taskData |-> PlainTask],
                         [task_id |-> OverlapTasks, title |-> "T", status |-> "todo"])
    /\ calls = [c \in CallIds |-> NoCall]
    /\ migrations = getMigrations
    /\ log = [i \in DOMAIN getMigrations |-> getMigrations[i].version]

NextOverlap ==
    \/ \E c \in CallIds, project \in getCurrentActiveProject,
          parent \in 1..OverlapTasks, child \in 1..OverlapTasks :
          addTaskDependency_begin(c, project, parent, child, UNDEF)
    \/ \E c \in CallIds : addTaskDependency_getChild(c)
    \/ \E c \in CallIds : wouldCreateCircularDependency_dependents(c)
    \/ \E c \in CallIds : addTaskDependency_insert(c)
    \/ \E c \in CallIds, taskId \in 1..OverlapTasks : completeTask_begin(c, taskId, UNDEF)
    \/ \E c \in CallIds : completeTask_update(c)
    \/ \E taskId \in 1..OverlapTasks, status \in {"completed", "in-progress"} :
          updateTask(taskId, [NoTaskData EXCEPT !.status = status])

SpecOverlap == InitOverlap /\ [][NextOverlap]_vars

----------------------------------------------------------------------------
(* SpecFrame: status updates and completions of tasks beside every dependency  *)
(* and blocker operation of the tools.                                         *)

FrameTasks == 2

NextFrame ==
    \/ /\ Cardinality(DOMAIN tasks) < FrameTasks
       /\ updateTaskStatus([NoTaskToolArgs EXCEPT !.action = "create", !.title = "T"])
    \/ \E taskId \in 1..FrameTasks, status \in TaskStatuses :
          updateTaskStatus([NoTaskToolArgs EXCEPT !.action = "update", !.task_id = taskId,
                                                  !.status = status])
    \/ \E taskId \in 1..FrameTasks :
          updateTaskStatus([NoTaskToolArgs EXCEPT !.action = "complete",
                                                  !.task_id = taskId])
    \/ \E action \in {"add", "remove"} :
          manageTaskDependencies([NoToolArgs EXCEPT !.action = action,
                                                   !.parent_task_id = 1,
                                                   !.child_task_id = FrameTasks])
    \/ manageBlockers([NoBlockerToolArgs EXCEPT !.action = "create", !.title = "B"])
    \/ \E blockerId \in BlockerIds :
          manageBlockers([NoBlockerToolArgs EXCEPT !.action = "update",
                                                  !.blocker_id = blockerId,
                                                  !.status = "in-progress"])
    \/ \E blockerId \in BlockerIds, action \in {"resolve", "delete"} :
          manageBlockers([NoBlockerToolArgs EXCEPT !.action = action,
                                                  !.blocker_id = blockerId])
    \/ \E blockerId \in BlockerIds, action \in {"add_impact", "remove_impact"} :
          manageBlockers([NoBlockerToolArgs EXCEPT !.action = action,
                                                  !.blocker_id = blockerId,
                                                  !.task_id = FrameTasks])

SpecFrame == Init /\ [][NextFrame]_vars

----------------------------------------------------------------------------
(* SpecMigrations: a project database that is new, or was left by a release    *)
(* with fewer migrations, is opened any number of times, by itself and by      *)
(* initialize_context, and used.                                               *)

MigrationTasks == 2

(* The versions of the given migration rows, in their order. *)
VersionsOf(rows) == [i \in DOMAIN rows |-> rows[i].version]

(* The migrations table holds every migration of getMigrations(). *)
UpToDate == migrations = getMigrations

InitMigrations ==
    /\ projects = <<>>
    /\ tasks = <<>>
    /\ task_dependencies = {}
    /\ blockers = <<>>
    /\ blocker_impacts = {}
    /\ decisions = <<>>
    /\ calls = [c \in CallIds |-> NoCall]
    /\ \E applied \in 0..Len(getMigrations) :
          /\ migrations = SubSeq(getMigrations, 1, applied)
          /\ log = VersionsOf(SubSeq(getMigrations, 1, applied))
    /\ result = Returned("initialize", <<>>, <<>>)

NextMigrations ==
    \/ getProjectDatabase
    \/ \E branch \in {"main", "feature"} : initializeContext(branch)
    \/ \E project \in getCurrentActiveProject :
          /\ UpToDate
          /\ Cardinality(DOMAIN tasks) < MigrationTasks
          /\ createTask(project, PlainTask)

SpecMigrations == InitMigrations /\ [][NextMigrations]_vars

----------------------------------------------------------------------------
(* Graph notions the properties are stated with, defined apart from the search *)
(* of the code.                                                                *)

(* The stored edges of the given types, as parent -> child pairs. *)
EdgesOfTypes(types) ==
    {<<d.parent_task_id, d.child_task_id>> :
        d \in {e \in task_dependencies : e.dependency_type \in types}}

(* The nodes reachable from a node of S along edges of E (S included). *)
RECURSIVE ReachFrom(_, _)
ReachFrom(S, E) ==
    LET T == S \cup {e[2] : e \in {f \in E : f[1] \in S}}
    IN  IF T = S THEN S ELSE ReachFrom(T, E)

(* The nodes reachable from n along at least one edge of E. *)
StrictReach(n, E) == ReachFrom({e[2] : e \in {f \in E : f[1] = n}}, E)

HasCycle(E) == \E e \in E : e[1] \in StrictReach(e[1], E)

(* The last call was op and threw nothing. *)
Succeeded(op) == result.op = op /\ result.error = NoError

DepsBetween(parent, child) ==
    {d \in task_dependencies : d.parent_task_id = parent /\ d.child_task_id = child}

----------------------------------------------------------------------------
(* Properties of the dependency graph, checked under Spec. *)

(* C1: after any sequence of task and dependency calls, the stored edges of   *)
(* type blocks or prerequisite contain no directed cycle.                     *)
C1_GatingEdgesAcyclic == ~HasCycle(EdgesOfTypes({"blocks", "prerequisite"}))

(* C1 witness: a chain of two gating edges is stored and the add that would   *)
(* close it into a cycle has just been rejected.                              *)
C1_Witness ==
    /\ result.op = "addTaskDependency"
    /\ result.error = CycleDetected
    /\ result.args.parent_task_id # result.args.child_task_id
    /\ LET E == EdgesOfTypes({"blocks", "prerequisite"})
       IN  /\ <<result.args.child_task_id, result.args.parent_task_id>> \notin E
           /\ result.args.parent_task_id \in StrictReach(result.args.child_task_id, E)

(* C2: add_dependency(parent, child) fails with CycleDetected whenever parent *)
(* is reachable from child along the stored edges (or is the child itself,    *)
(* an existing task), and the failed call changes no table.                   *)
C2_CycleRejected ==
    [][(/\ result'.op = "addTaskDependency"
        /\ LET p == result'.args.parent_task_id
               c == result'.args.child_task_id
           IN  \/ p \in StrictReach(c, EdgesOfTypes(DependencyTypes))
               \/ (p = c /\ p \in DOMAIN tasks))
       => (result'.error = CycleDetected /\ UNCHANGED tables)]_vars

(* C2 witness: with A -> B and B -> C stored and no edge C -> A, the call     *)
(* add(C, A) has failed with CycleDetected.                                   *)
C2_Witness ==
    /\ result.op = "addTaskDependency"
    /\ result.error = CycleDetected
    /\ LET p == result.args.parent_task_id
           c == result.args.child_task_id
       IN  /\ p # c
           /\ DepsBetween(c, p) = {}
           /\ \E b \in TaskIds : DepsBetween(c, b) # {} /\ DepsBetween(b, p) # {}

C8_Original ==
    /\ (/\ result.op = "manage_task_dependencies"
        /\ result.args.action = "query"
        /\ result.args.task_id \notin DOMAIN tasks)
       => result.error \in NotFound
    /\ (/\ result.op = "manage_task_dependencies"
        /\ result.args.action = "check_circular"
        /\ (\/ result.args.parent_task_id \notin DOMAIN tasks
            \/ result.args.child_task_id \notin DOMAIN tasks))
       => result.error \in NotFound

(* C10 as stated: remove_dependency without a type deletes every edge between *)
(* the pair and reports their number, with a type only the edges of that      *)
(* type; the same through the tool's remove action with the type left out.    *)
C10_Original ==
    [][/\ result'.op = "removeTaskDependency"
          => LET between == DepsBetween(result'.args.parent_task_id,
                                        result'.args.child_task_id)
                 removed == IF result'.args.dependency_type = UNDEF THEN between
                            ELSE {d \in between :
                                    d.dependency_type = result'.args.dependency_type}
             IN  /\ task_dependencies' = task_dependencies \ removed
                 /\ result'.ret.changes = Cardinality(removed)
       /\ (/\ result'.op = "manage_task_dependencies"
           /\ result'.args.action = "remove"
           /\ result'.args.dependency_type = UNDEF)
          => task_dependencies' = task_dependencies
                 \ DepsBetween(result'.args.parent_task_id, result'.args.child_task_id)
      ]_vars


----------------------------------------------------------------------------
(* Notions the completion properties are stated with. *)

GatingTypes == {"blocks", "prerequisite"}

(* The parents of c on blocks or prerequisite edges that are not completed. *)
UnmetParents(c) ==
    {p \in DOMAIN tasks :
        /\ tasks[p].status # "completed"
        /\ \E d \in task_dependencies :
              /\ d.parent_task_id = p
              /\ d.child_task_id = c
              /\ d.dependency_type \in GatingTypes}

(* The blockers that are open or in progress and have a 'blocks' impact on t. *)
ActiveBlockersOf(t) ==
    {b \in DOMAIN blockers :
        /\ blockers[b].status \in {"open", "in-progress"}
        /\ \E i \in blocker_impacts :
              i.blocker_id = b /\ i.task_id = t /\ i.impact_type = "blocks"}

(* C3: completing a task that has a parent on a blocks or prerequisite edge     *)
(* whose status is not completed fails with the Blocked error, which names      *)
(* exactly the title and status of each such parent, and leaves every table     *)
(* (the task's status, completed_at and notes included) as it was; completing   *)
(* an existing task all of whose such parents are completed succeeds and sets   *)
(* its status to completed.                                                     *)
C3_CompleteGatedByParents ==
    [][result'.op = "completeTask" =>
          LET c == result'.args.task_id
          IN  /\ UnmetParents(c) # {} =>
                    /\ result'.error = Blocked
                    /\ result'.ret.blockedBy =
                          {<<tasks[p].title, tasks[p].status>> : p \in UnmetParents(c)}
                    /\ UNCHANGED tables
              /\ (UnmetParents(c) = {} /\ c \in DOMAIN tasks) =>
                    /\ result'.error = NoError
                    /\ tasks'[c].status = "completed"
                    /\ tasks'[c].completed_at # NULL]_vars

(* A completion was refused for a task with two gating parents, one completed   *)
(* and one not, and the refusal names the one that is not.                      *)
C3_Witness ==
    /\ result.op = "completeTask"
    /\ result.error = Blocked
    /\ result.args.notes = "done"
    /\ LET c == result.args.task_id
       IN  /\ Cardinality(UnmetParents(c)) = 1
           /\ Cardinality(result.ret.blockedBy) = 1
           /\ \E p \in DOMAIN tasks \ UnmetParents(c) :
                 /\ tasks[p].status = "completed"
                 /\ \E d \in task_dependencies :
                       /\ d.parent_task_id = p
                       /\ d.child_task_id = c
                       /\ d.dependency_type \in GatingTypes
           /\ tasks[c].status # "completed"
           /\ tasks[c].notes = NULL

(* C4 as stated: completing a task on which an open or in-progress blocker has  *)
(* a 'blocks' impact fails with the Blocked error and changes nothing.          *)
C4_Original ==
    [][(result'.op = "completeTask" /\ ActiveBlockersOf(result'.args.task_id) # {}) =>
          (result'.error = Blocked /\ UNCHANGED tables)]_vars

(* C5 as stated: a task's status becomes completed, by any operation, only      *)
(* when each of its blocks/prerequisite parents is completed and no open or     *)
(* in-progress blocker has a 'blocks' impact on it.                             *)
C5_Original ==
    [][\A t \in DOMAIN tasks' :
          (tasks'[t].status = "completed"
              /\ (t \notin DOMAIN tasks \/ tasks[t].status # "completed"))
          => (UnmetParents(t) = {} /\ ActiveBlockersOf(t) = {})]_vars

(* C7: every dependency edge references two existing tasks and every impact     *)
(* references an existing blocker and an existing task, in every reachable      *)
(* state; a successful task deletion leaves exactly the edges and impacts that  *)
(* do not reference the task, and a successful blocker deletion exactly the     *)
(* impacts that do not reference the blocker.                                   *)
C7_ReferentialIntegrity ==
    /\ [](/\ \A d \in task_dependencies :
                d.parent_task_id \in DOMAIN tasks /\ d.child_task_id \in DOMAIN tasks
          /\ \A i \in blocker_impacts :
                i.blocker_id \in DOMAIN blockers /\ i.task_id \in DOMAIN tasks)
    /\ [][/\ (result'.op = "deleteTask" /\ result'.error = NoError) =>
                LET t == result'.args.task_id
                IN  /\ t \notin DOMAIN tasks'
                    /\ task_dependencies' =
                          {d \in task_dependencies :
                              d.parent_task_id # t /\ d.child_task_id # t}
                    /\ blocker_impacts' = {i \in blocker_impacts : i.task_id # t}
          /\ (result'.op = "deleteBlocker" /\ result'.error = NoError) =>
                LET b == result'.args.blocker_id
                IN  /\ b \notin DOMAIN blockers'
                    /\ blocker_impacts' = {i \in blocker_impacts : i.blocker_id # b}]_vars

(* A task has been deleted while another task and an impact on it remain. *)
C7_Witness ==
    /\ Succeeded("deleteTask")
    /\ result.args.task_id \notin DOMAIN tasks
    /\ DOMAIN tasks # {}
    /\ blocker_impacts # {}

(* C9: removing a dependency edge or a blocker impact when no row matches the   *)
(* arguments is not an error: it returns with zero changes and success false,   *)
(* and no table changes (so the same call made again meets the same state and   *)
(* gives the same result).                                                      *)
C9_RemoveNothingIsNoError ==
    [][/\ (/\ result'.op = "removeTaskDependency"
           /\ \A d \in task_dependencies :
                 \/ d.parent_task_id # result'.args.parent_task_id
                 \/ d.child_task_id # result'.args.child_task_id
                 \/ /\ result'.args.dependency_type # UNDEF
                    /\ d.dependency_type # result'.args.dependency_type)
          => /\ result'.error = NoError
             /\ result'.ret.changes = 0
             /\ result'.ret.success = FALSE
             /\ UNCHANGED tables
       /\ (/\ result'.op = "removeBlockerImpact"
           /\ \A i \in blocker_impacts :
                 \/ i.blocker_id # result'.args.blocker_id
                 \/ i.task_id # result'.args.task_id
                 \/ /\ result'.args.impact_type # UNDEF
                    /\ i.impact_type # result'.args.impact_type)
          => /\ result'.error = NoError
             /\ result'.ret.changes = 0
             /\ result'.ret.success = FALSE
             /\ UNCHANGED tables]_vars

(* A removal with a dependency type found nothing although an edge of another   *)
(* type joins the same two tasks, and an impact exists as well.                 *)
C9_Witness ==
    /\ Succeeded("removeTaskDependency")
    /\ result.ret.changes = 0
    /\ result.args.dependency_type # UNDEF
    /\ DepsBetween(result.args.parent_task_id, result.args.child_task_id) # {}
    /\ blocker_impacts # {}


(* C11: adding a dependency whose parent id or child id is the id of no task    *)
(* fails with a NotFound error and changes no table.                            *)
C11_AddMissingTaskNotFound ==
    [][(/\ result'.op = "addTaskDependency"
        /\ \/ result'.args.parent_task_id \notin DOMAIN tasks
           \/ result'.args.child_task_id \notin DOMAIN tasks)
       => (result'.error \in NotFound /\ UNCHANGED tables)]_vars

(* An add was refused because the child does not exist although the parent     *)
(* does and edges are stored.                                                   *)
C11_Witness ==
    /\ result.op = "addTaskDependency"
    /\ result.error = "Child task not found"
    /\ result.args.parent_task_id \in DOMAIN tasks
    /\ result.args.child_task_id \notin DOMAIN tasks
    /\ task_dependencies # {}


(* C12 as stated: every stored edge joins two tasks of one project, which is    *)
(* the edge's project_id, and every stored impact links a blocker and a task    *)
(* of one project.                                                              *)
C12_Original ==
    /\ \A d \in task_dependencies :
          /\ tasks[d.parent_task_id].project_id = d.project_id
          /\ tasks[d.child_task_id].project_id = d.project_id
    /\ \A i \in blocker_impacts :
          blockers[i.blocker_id].project_id = tasks[i.task_id].project_id


(* C13: no two stored edges have the same parent, child and dependency type;    *)
(* adding an edge whose parent, child and type (blocks when omitted) are        *)
(* already stored fails and changes no table.                                   *)
C13_UniqueTriple ==
    /\ [](\A d1 \in task_dependencies, d2 \in task_dependencies :
             (/\ d1.parent_task_id = d2.parent_task_id
              /\ d1.child_task_id = d2.child_task_id
              /\ d1.dependency_type = d2.dependency_type) => d1 = d2)
    /\ [][(/\ result'.op = "addTaskDependency"
           /\ \E d \in task_dependencies :
                 /\ d.parent_task_id = result'.args.parent_task_id
                 /\ d.child_task_id = result'.args.child_task_id
                 /\ d.dependency_type =
                       (IF result'.args.dependency_type = UNDEF THEN "blocks"
                        ELSE result'.args.dependency_type))
          => (result'.error # NoError /\ UNCHANGED tables)]_vars

(* An add of a stored triple was refused while the same two tasks are joined    *)
(* by edges of two types.                                                       *)
C13_Witness ==
    /\ result.op = "addTaskDependency"
    /\ result.error = SqliteUnique
    /\ Cardinality({d.dependency_type :
                      d \in DepsBetween(result.args.parent_task_id,
                                        result.args.child_task_id)}) >= 2


(* C14: a successful update of a task sets each of title, description, status,  *)
(* priority, assignee and notes that the call provides to the provided value    *)
(* and leaves every other field of the task, every other task and every other   *)
(* table as it was.                                                             *)
C14_UpdateFrame ==
    [][(result'.op = "updateTask" /\ result'.error = NoError) =>
          LET t == result'.args.task_id
              u == result'.args.updates
          IN  /\ DOMAIN tasks' = DOMAIN tasks
              /\ \A f \in DOMAIN tasks[t] :
                    tasks'[t][f] =
                       IF /\ f \in {"title", "description", "status", "priority",
                                    "assignee", "notes"}
                          /\ u[f] # UNDEF
                       THEN u[f]
                       ELSE tasks[t][f]
              /\ \A o \in DOMAIN tasks \ {t} : tasks'[o] = tasks[o]
              /\ UNCHANGED <<projects, task_dependencies, blockers, blocker_impacts,
                             decisions>>]_vars

(* An update of the title alone succeeded on a task that keeps its description, *)
(* status, priority, assignee and notes, while another task exists.             *)
C14_Witness ==
    /\ Succeeded("updateTask")
    /\ result.args.updates.title = "U"
    /\ result.args.updates.notes = UNDEF
    /\ LET t == result.args.task_id
       IN  /\ tasks[t].title = "U"
           /\ tasks[t].description = "d"
           /\ tasks[t].priority = "high"
           /\ tasks[t].assignee = "me"
           /\ tasks[t].notes = "u"
           /\ DOMAIN tasks \ {t} # {}

(* C15 as stated: update, complete and delete with the id of no task, and       *)
(* update and delete with the id of no blocker, fail with a NotFound error and  *)
(* change no table.                                                             *)
C15_Original ==
    [][/\ (/\ result'.op \in {"updateTask", "completeTask", "deleteTask"}
           /\ result'.args.task_id \notin DOMAIN tasks)
          => (result'.error \in NotFound /\ UNCHANGED tables)
       /\ (/\ result'.op \in {"updateBlocker", "deleteBlocker"}
           /\ result'.args.blocker_id \notin DOMAIN blockers)
          => (result'.error \in NotFound /\ UNCHANGED tables)]_vars

(* C15, made precise: complete and delete with the id of no task, delete with   *)
(* the id of no blocker, and update of a task or a blocker with the id of none  *)
(* and at least one updatable field provided, fail with a NotFound error; an    *)
(* update that provides no field fails with an InvalidArgument error whatever   *)
(* the id; in each case no table changes.                                       *)
C15_MissingIdNotFound ==
    [][/\ (/\ result'.op \in {"updateTask", "completeTask", "deleteTask"}
           /\ result'.args.task_id \notin DOMAIN tasks)
          => /\ UNCHANGED tables
             /\ IF /\ result'.op = "updateTask"
                   /\ \A f \in DOMAIN result'.args.updates :
                         result'.args.updates[f] = UNDEF
                THEN result'.error \in InvalidArgument
                ELSE result'.error \in NotFound
       /\ (/\ result'.op \in {"updateBlocker", "deleteBlocker"}
           /\ result'.args.blocker_id \notin DOMAIN blockers)
          => /\ UNCHANGED tables
             /\ IF /\ result'.op = "updateBlocker"
                   /\ \A f \in DOMAIN result'.args.updates :
                         result'.args.updates[f] = UNDEF
                THEN result'.error \in InvalidArgument
                ELSE result'.error \in NotFound]_vars

(* A delete of a task that does not exist was refused while a task and a        *)
(* blocker are stored.                                                          *)
C15_Witness ==
    /\ result.op = "deleteTask"
    /\ result.error = "Task not found"
    /\ result.args.task_id \notin DOMAIN tasks
    /\ DOMAIN tasks # {}
    /\ DOMAIN blockers # {}

(* C16: creating a task whose title is missing or empty fails with an           *)
(* InvalidArgument error and changes no table; a successful create stores a     *)
(* new task, with status todo when no status is given and priority medium when  *)
(* no priority is given.                                                        *)
C16_CreateTitleAndDefaults ==
    [][result'.op = "createTask" =>
          LET d == result'.args.taskData
          IN  /\ d.title \in {UNDEF, ""} =>
                    (result'.error \in InvalidArgument /\ UNCHANGED tables)
              /\ result'.error = NoError =>
                    LET t == result'.ret.task_id
                    IN  /\ t \notin DOMAIN tasks
                        /\ DOMAIN tasks' = DOMAIN tasks \cup {t}
                        /\ tasks'[t].title = d.title
                        /\ d.status = UNDEF => tasks'[t].status = "todo"
                        /\ d.priority = UNDEF => tasks'[t].priority = "medium"]_vars

(* A create with an empty title was refused, after a create with only a title   *)
(* stored a task with the defaults.                                             *)
C16_Witness ==
    /\ result.op = "createTask"
    /\ result.error = "Task title is required"
    /\ result.args.taskData.title = ""
    /\ \E t \in DOMAIN tasks :
          tasks[t].status = "todo" /\ tasks[t].priority = "medium"

(* C17: a task's completed_at goes from unset to set only in a successful       *)
(* complete of that task; a task is created with completed_at unset.            *)
C17_CompletedAtOnlyByComplete ==
    [][\A t \in DOMAIN tasks' :
          (/\ tasks'[t].completed_at # NULL
           /\ (t \notin DOMAIN tasks \/ tasks[t].completed_at = NULL))
          => /\ result'.op = "completeTask"
             /\ result'.error = NoError
             /\ result'.args.task_id = t]_vars

(* An update to status completed succeeded and left completed_at unset, while   *)
(* another task has completed_at set.                                           *)
C17_Witness ==
    /\ Succeeded("updateTask")
    /\ result.args.updates.status = "completed"
    /\ tasks[result.args.task_id].status = "completed"
    /\ tasks[result.args.task_id].completed_at = NULL
    /\ \E o \in DOMAIN tasks : tasks[o].completed_at # NULL


(* C18: a successful updateBlocker that sets status to resolved leaves the      *)
(* blocker with resolved_at set, and a blocker's resolved_at goes from unset    *)
(* to set only in such a call on that blocker; a blocker is created with        *)
(* resolved_at unset.                                                           *)
C18_ResolvedAtOnlyByResolve ==
    [][/\ (/\ result'.op = "updateBlocker"
           /\ result'.error = NoError
           /\ result'.args.updates.status = "resolved")
          => blockers'[result'.args.blocker_id].resolved_at # NULL
       /\ \A b \in DOMAIN blockers' :
             (/\ blockers'[b].resolved_at # NULL
              /\ (b \notin DOMAIN blockers \/ blockers[b].resolved_at = NULL))
             => /\ result'.op = "updateBlocker"
                /\ result'.error = NoError
                /\ result'.args.blocker_id = b
                /\ result'.args.updates.status = "resolved"]_vars

(* A blocker that was resolved has been moved on to in-progress and keeps its   *)
(* resolved_at.                                                                 *)
C18_Witness ==
    /\ Succeeded("updateBlocker")
    /\ result.args.updates.status = "in-progress"
    /\ blockers[result.args.blocker_id].status = "in-progress"
    /\ blockers[result.args.blocker_id].resolved_at # NULL

(* C19: adding an impact whose blocker, task and impact type (blocks when       *)
(* omitted) are already stored fails with the AlreadyExists error and changes   *)
(* no table.                                                                    *)
C19_DuplicateImpactRejected ==
    [][(/\ result'.op = "addBlockerImpact"
        /\ \E i \in blocker_impacts :
              /\ i.blocker_id = result'.args.blocker_id
              /\ i.task_id = result'.args.task_id
              /\ i.impact_type =
                    (IF result'.args.impactData.impact_type = UNDEF THEN "blocks"
                     ELSE result'.args.impactData.impact_type))
       => (result'.error \in AlreadyExists /\ UNCHANGED tables)]_vars

(* An add of a stored impact was refused while the same blocker and task are    *)
(* linked by one impact only.                                                   *)
C19_Witness ==
    /\ result.op = "addBlockerImpact"
    /\ result.error \in AlreadyExists
    /\ Cardinality({i \in blocker_impacts :
                      /\ i.blocker_id = result.args.blocker_id
                      /\ i.task_id = result.args.task_id}) = 1


(* C20 as stated: a call that ends in an error leaves every table as it was     *)
(* before the call.                                                             *)
C20_Original ==
    [][result'.error # NoError => UNCHANGED tables]_vars


(* The tasks of the given projects. *)
TasksOfProjects(ps) == {t \in DOMAIN tasks : tasks[t].project_id \in ps}

(* C21 as stated: a task, an edge or a blocker created through a tool is        *)
(* attached to the active project of the current branch, and the call leaves    *)
(* the projects and the tasks of the other projects as they were.               *)
C21_Original ==
    [][/\ (result'.op = "createTask" /\ result'.error = NoError) =>
             /\ tasks'[result'.ret.task_id].project_id \in getCurrentContext(detectGitBranch)
             /\ \A t \in DOMAIN tasks : tasks'[t] = tasks[t]
             /\ projects' = projects
       /\ (/\ result'.op = "manage_task_dependencies"
           /\ result'.error = NoError
           /\ result'.args.action = "add") =>
             /\ \A d \in task_dependencies' \ task_dependencies :
                   d.project_id \in getCurrentContext(detectGitBranch)
             /\ tasks' = tasks
             /\ projects' = projects
       /\ (result'.op = "createBlocker" /\ result'.error = NoError) =>
             /\ blockers'[result'.ret.blocker_id].project_id
                   \in getCurrentContext(detectGitBranch)
             /\ tasks' = tasks
             /\ projects' = projects]_vars

C23_Original ==
    [][(/\ result'.op = "clear_context"
        /\ result'.error = NoError
        /\ result'.ret.count = 1)
       => \E gone \in DOMAIN projects :
             /\ DOMAIN projects' = DOMAIN projects \ {gone}
             /\ DOMAIN tasks' = DOMAIN tasks \ TasksOfProjects({gone})
             /\ \A t \in DOMAIN tasks' : tasks'[t] = tasks[t]
             /\ DOMAIN blockers' =
                   {b \in DOMAIN blockers : blockers[b].project_id # gone}
             /\ \A d \in task_dependencies' :
                   d.parent_task_id \in DOMAIN tasks' /\ d.child_task_id \in DOMAIN tasks'
             /\ \A i \in blocker_impacts' :
                   i.blocker_id \in DOMAIN blockers' /\ i.task_id \in DOMAIN tasks'
             /\ {d \in task_dependencies : d.project_id # gone} \subseteq task_dependencies'
             /\ task_dependencies' \subseteq task_dependencies]_vars


(* C24 as stated: no call stores a value outside the declared sets, so every    *)
(* stored status, priority, dependency type, blocker type, severity, blocker    *)
(* status and impact type is a declared one.                                    *)
C24_Original ==
    /\ \A t \in DOMAIN tasks :
          tasks[t].status \in TaskStatuses /\ tasks[t].priority \in TaskPriorities
    /\ \A d \in task_dependencies : d.dependency_type \in DependencyTypes
    /\ \A b \in DOMAIN blockers :
          /\ blockers[b].blocker_type \in BlockerTypes
          /\ blockers[b].severity \in BlockerSeverities
          /\ blockers[b].status \in BlockerStatuses
    /\ \A i \in blocker_impacts : i.impact_type \in ImpactTypes


(* The parents of c whose every edge into c is a subtask edge. *)
SubtaskOnlyParents(c) ==
    {p \in DOMAIN tasks :
        /\ \E d \in task_dependencies : d.parent_task_id = p /\ d.child_task_id = c
        /\ \A d \in task_dependencies :
              (d.parent_task_id = p /\ d.child_task_id = c) => d.dependency_type = "subtask"}

(* C27: for every task id, canCompleteTask lists exactly the parents on blocks  *)
(* or prerequisite edges whose status is not completed, each with its own       *)
(* status; can_complete is true exactly when the list is empty; a parent linked *)
(* by subtask edges only is never listed.                                       *)
C27_CanCompleteListsUnmetParents ==
    \A c \in TaskIdInputs :
        LET check == canCompleteTask(c)
            listed == {dep.id : dep \in check.unsatisfied_dependencies}
        IN  /\ listed = UnmetParents(c)
            /\ \A dep \in check.unsatisfied_dependencies :
                  /\ dep.dependency_type \in GatingTypes
                  /\ dep.status = tasks[dep.id].status
                  /\ dep.status # "completed"
            /\ check.can_complete = (UnmetParents(c) = {})
            /\ listed \cap SubtaskOnlyParents(c) = {}

(* A task was completed while a parent linked by a subtask edge only is not     *)
(* completed and a parent on a gating edge is.                                  *)
C27_Witness ==
    /\ result.op = "completeTask"
    /\ result.error = NoError
    /\ LET c == result.args.task_id
       IN  /\ result.ret.dependency_check.can_complete
           /\ \E p \in SubtaskOnlyParents(c) : tasks[p].status # "completed"
           /\ \E d \in task_dependencies :
                 /\ d.child_task_id = c
                 /\ d.dependency_type \in GatingTypes
                 /\ tasks[d.parent_task_id].status = "completed"


(* The open or in-progress blockers that have an impact of any type on t. *)
ActiveBlockersOn(t) ==
    {b \in DOMAIN blockers :
        /\ blockers[b].status \in {"open", "in-progress"}
        /\ \E i \in blocker_impacts : i.blocker_id = b /\ i.task_id = t}

(* C30 as stated: getTasksBlockedByBlockers returns exactly the tasks of the    *)
(* project that an open or in-progress blocker has an impact on, each with      *)
(* blocker_count the number of distinct such blockers, by descending count.     *)
C30_Original ==
    result.op = "getTasksBlockedByBlockers" =>
        LET rows == result.ret
            project == result.args.project_id
        IN  /\ {rows[i].id : i \in DOMAIN rows} =
                  {t \in DOMAIN tasks :
                      tasks[t].project_id = project /\ ActiveBlockersOn(t) # {}}
            /\ \A i \in DOMAIN rows :
                  rows[i].blocker_count = Cardinality(ActiveBlockersOn(rows[i].id))
            /\ \A i, j \in DOMAIN rows :
                  i < j => rows[i].blocker_count >= rows[j].blocker_count


----------------------------------------------------------------------------
(* Properties of the cycle search, checked under SpecSearch and SpecSearchFair. *)

(* Every stored edge, whatever its type, as a parent -> child pair. *)
AllEdges == {<<d.parent_task_id, d.child_task_id>> : d \in task_dependencies}

(* C25: for every stored edge set and every pair of ids, the search answers     *)
(* true exactly when the parent is reachable from the child along stored        *)
(* parent -> child edges, the child itself included.                            *)
C25_SearchIsReachability ==
    /\ \A parent \in TaskIdInputs, child \in TaskIdInputs :
          wouldCreateCircularDependency(parent, child)
             = (parent \in ReachFrom({child}, AllEdges))
    /\ result.op = "wouldCreateCircularDependency" =>
          result.ret.wouldCreateCircle
             = (result.args.parent_task_id
                   \in ReachFrom({result.args.child_task_id}, AllEdges))

(* The search has answered true for a parent that is reached from the child     *)
(* by a path of two edges and by no single edge.                                *)
C25_Witness ==
    /\ result.op = "wouldCreateCircularDependency"
    /\ result.ret.wouldCreateCircle
    /\ result.args.parent_task_id # result.args.child_task_id
    /\ <<result.args.child_task_id, result.args.parent_task_id>> \notin AllEdges
    /\ Cardinality(AllEdges) >= 3

(* No search in flight is about to read the dependents of a task it has read    *)
(* before, and none has read more than one task per stored task.                *)
NoTaskExpandedTwice ==
    \A c \in CallIds :
        calls[c].pc = "dependents" =>
            LET expanded == calls[c].locals.expanded
            IN  /\ \A i \in DOMAIN expanded : expanded[i] # calls[c].locals.currentId
                /\ \A i, j \in DOMAIN expanded : i # j => expanded[i] # expanded[j]
                /\ Len(expanded) < MaxExpanded

(* C26: on every edge set, with or without cycles, a search that awaits the     *)
(* dependents of a task ends, and it reads the dependents of each task at most  *)
(* once.                                                                        *)
C26_SearchTerminates ==
    /\ []NoTaskExpandedTwice
    /\ \A c \in CallIds : (calls[c].pc = "dependents") ~> (calls[c].pc = "idle")

(* A search on an edge set with a cycle has read the dependents of two tasks    *)
(* and awaits those of a third.                                                 *)
C26_Witness ==
    \E c \in CallIds :
        /\ calls[c].pc = "dependents"
        /\ Len(calls[c].locals.expanded) = 2
        /\ HasCycle(AllEdges)


----------------------------------------------------------------------------
(* Properties of overlapping calls, checked under SpecOverlap. *)

(* C28 as stated: the cycle check and the insert of an add_dependency call act  *)
(* as one unit even when calls overlap, so the stored edges never contain a     *)
(* directed cycle.                                                              *)
C28_Original == ~HasCycle(AllEdges)

(* C29 as stated: when the UPDATE of a complete call marks a task completed,    *)
(* the task has no parent on a blocks or prerequisite edge that is not          *)
(* completed at that moment.                                                    *)
C29_Original ==
    [][\A c \in CallIds :
          (/\ calls[c].pc = "update"
           /\ calls'[c].pc = "idle"
           /\ result'.error = NoError)
             => UnmetParents(calls[c].args.task_id) = {}]_vars


----------------------------------------------------------------------------
(* Properties of status updates and of the frame of dependency and blocker      *)
(* operations, checked under SpecFrame.                                         *)

(* C31: an update that gives a status to a stored task succeeds and stores that *)
(* status, from whatever status and whatever the task's parents and blockers    *)
(* are; only complete ever fails with the Blocked error.                        *)
C31_UpdateIsUngated ==
    [][/\ (/\ result'.op = "updateTask"
           /\ result'.args.task_id \in DOMAIN tasks
           /\ result'.args.updates.status # UNDEF) =>
              /\ result'.error = NoError
              /\ tasks'[result'.args.task_id].status = result'.args.updates.status
       /\ result'.error = Blocked => result'.op = "completeTask"]_vars

(* An update has just set to completed a task that has a parent on a blocks     *)
(* edge that is not completed and an open blocker with a blocks impact on it.   *)
C31_Witness ==
    /\ result.op = "updateTask"
    /\ result.error = NoError
    /\ result.args.updates.status = "completed"
    /\ LET t == result.args.task_id
       IN  /\ tasks[t].status = "completed"
           /\ UnmetParents(t) # {}
           /\ ActiveBlockersOf(t) # {}

(* The calls that act on dependencies, blockers and impacts. *)
DependencyAndBlockerOps ==
    {"manage_task_dependencies", "manage_blockers", "createBlocker", "updateBlocker",
     "deleteBlocker", "addBlockerImpact", "removeBlockerImpact"}

(* C38: adding and removing a dependency, creating, updating, resolving and     *)
(* deleting a blocker, and adding and removing an impact leave every task row,  *)
(* its status, completed_at and notes included, as it was.                      *)
C38_TasksUntouched ==
    [][result'.op \in DependencyAndBlockerOps => tasks' = tasks]_vars

(* A blocks impact of an open blocker has just been added to a task that is     *)
(* the child of a blocks edge from a task that is not completed, and the task   *)
(* is still todo.                                                               *)
C38_Witness ==
    /\ result.op = "addBlockerImpact"
    /\ result.error = NoError
    /\ LET t == result.args.task_id
       IN  /\ tasks[t].status = "todo"
           /\ UnmetParents(t) # {}
           /\ ActiveBlockersOf(t) # {}


----------------------------------------------------------------------------
(* Properties of the project a call is scoped to, checked under SpecContext. *)

(* The active projects of a branch. *)
ActiveOn(branch) ==
    {p \in DOMAIN projects : projects[p].branch = branch /\ projects[p].status = "active"}

(* C32: for every branch, getCurrentContext answers null exactly when the       *)
(* branch has no active project; otherwise it answers an active project of      *)
(* that branch that no active project of the branch is later than; a blocker    *)
(* the tool creates is attached to such a project of the current branch, and    *)
(* the tool reports no context only when the current branch has none.           *)
C32_ContextIsLatestOfBranch ==
    /\ \A branch \in {"main", "feature", "release"} :
          /\ (getCurrentContext(branch) = {}) = (ActiveOn(branch) = {})
          /\ getCurrentContext(branch) \subseteq ActiveOn(branch)
          /\ \A p \in getCurrentContext(branch), q \in ActiveOn(branch) :
                projects[q].updated_at <= projects[p].updated_at
    /\ (result.op = "createBlocker" /\ result.error = NoError) =>
          /\ result.args.project_id \in ActiveOn(detectGitBranch)
          /\ \A q \in ActiveOn(detectGitBranch) :
                projects[q].updated_at <= projects[result.args.project_id].updated_at
    /\ result.error = NoContext => ActiveOn(detectGitBranch) = {}

(* A blocker has just been created while the current branch has two active     *)
(* projects with different update times.                                        *)
C32_Witness ==
    /\ result.op = "createBlocker"
    /\ result.error = NoError
    /\ \E p \in ActiveOn(detectGitBranch), q \in ActiveOn(detectGitBranch) :
          projects[p].updated_at < projects[q].updated_at

(* C34 as stated: clear_context with scope 'all' and confirm true removes       *)
(* every project and reports how many there were.                               *)
C34_Original ==
    [][(/\ result'.op = "clear_context"
        /\ result'.args = [scope |-> "all", confirm |-> TRUE])
       => /\ result'.error = NoError
          /\ DOMAIN projects' = {}
          /\ result'.ret.count = Cardinality(DOMAIN projects)]_vars


----------------------------------------------------------------------------
(* Properties of the stored edges and of completed tasks under calls processed  *)
(* one at a time, checked under Spec and SpecGate.                              *)

(* C35: after every call the stored edges of all types together, subtask        *)
(* included, contain no directed cycle, and an add of any type is rejected      *)
(* with CycleDetected whenever its parent is reached from its child along       *)
(* stored edges of any type.                                                    *)
C35_AllTypesAcyclic ==
    [][/\ ~HasCycle({<<d.parent_task_id, d.child_task_id>> : d \in task_dependencies'})
       /\ (/\ result'.op = "addTaskDependency"
           /\ result'.args.parent_task_id
                 \in StrictReach(result'.args.child_task_id, AllEdges))
          => /\ result'.error = CycleDetected
             /\ task_dependencies' = task_dependencies]_vars

(* With a subtask edge B -> A stored and no other edge between the two, the     *)
(* add of a blocks edge A -> B has just failed with CycleDetected.              *)
C35_Witness ==
    /\ result.op = "addTaskDependency"
    /\ result.error = CycleDetected
    /\ result.args.dependency_type = UNDEF
    /\ LET a == result.args.parent_task_id
           b == result.args.child_task_id
       IN  /\ a # b
           /\ DepsBetween(b, a) # {}
           /\ \A d \in task_dependencies : d.dependency_type = "subtask"

(* C36 as stated: no completed task has an incoming blocks or prerequisite      *)
(* edge from a task that is not completed.                                      *)
C36_Original ==
    \A t \in DOMAIN tasks : tasks[t].status = "completed" => UnmetParents(t) = {}

(* C37 as stated: a task has completed_at set exactly when its status is        *)
(* completed.                                                                   *)
C37_Original ==
    \A t \in DOMAIN tasks : (tasks[t].completed_at # NULL) = (tasks[t].status = "completed")


----------------------------------------------------------------------------
(* Properties of the schema migrations, checked under SpecMigrations. *)

(* C33: every open of the database, by itself or by initialize_context, runs    *)
(* exactly the migrations whose version the migrations table does not hold, in  *)
(* ascending order of version, and leaves the table with one row for each of    *)
(* the versions 1 to 6; an open of an up-to-date database runs none; over all   *)
(* the opens no version is run twice.                                           *)
C33_MigrationsRunOnce ==
    [][/\ result'.op \in {"getProjectDatabase", "initializeContext"} =>
             /\ result'.error = NoError
             /\ VersionsOf(migrations') = [v \in 1..Len(getMigrations) |-> v]
             /\ log' = log \o [i \in 1..(Len(getMigrations) - Len(migrations)) |->
                                 Len(migrations) + i]
             /\ UpToDate => (log' = log /\ migrations' = migrations)
       /\ \A i, j \in DOMAIN log' : i # j => log'[i] # log'[j]]_vars

(* A database that was opened before, and holds a project and a task, has been  *)
(* opened again and no migration ran.                                           *)
C33_Witness ==
    /\ result.op = "getProjectDatabase"
    /\ result.error = NoError
    /\ result.ret.ran = <<>>
    /\ DOMAIN tasks # {}
    /\ VersionsOf(migrations) = <<1, 2, 3, 4, 5, 6>>
    /\ log = <<1, 2, 3, 4, 5, 6>>

====
